---------------------------- MODULE Spec2Model ----------------------------
(***************************************************************************)
(* Model of the ingest-to-signal core of MyArbitrager:                     *)
(*   - MPSCRingBuffer (mpsc_ring_buffer.hpp) and MPSCSharedQueue: the      *)
(*     lock-free transport, one step per atomic operation;                 *)
(*   - MutexSharedQueue: the mutex-guarded transport;                      *)
(*   - ArbitrageEngine: drain, detection pass, publish, get_opportunities. *)
(*                                                                         *)
(* Memory model: every atomic load, store and compare-exchange is one      *)
(* step and steps interleave sequentially consistently.  The code uses     *)
(* acquire loads and release stores on Slot::sequence and acq_rel on the   *)
(* tail_ CAS; the non-atomic Slot::data accesses are steps of their own.   *)
(* compare_exchange_weak is modelled as the x86-64 build executes it       *)
(* (lock cmpxchg): it fails only when tail_ differs from the expected      *)
(* value.                                                                  *)
(***************************************************************************)
EXTENDS Integers, Sequences, FiniteSets, TLC

\* ------------------------------------------------------------------ bounds

\* Ring capacity (template parameter Size; the engine instantiates 4096).
Size == 4

\* Counters are size_t and wrap at 2^64; the model wraps them at
\* CounterLaps * Size, a multiple of Size as 2^64 is.
CounterLaps == 8

\* Number of push calls, over all producers, in the bounded specifications.
MaxPushes == 5

\* Number of push calls, over all producers, on each of the two builds that
\* are fed the same quotes.
DualPushes == 5

\* Number of concurrent record calls on one tracker entry, and the largest
\* latency recorded.
MaxRecordCalls == 3
MaxLatency == 3
\* latency reports printed in a run
MaxPrintedReports == 2
\* measurements each instrumented thread makes
MaxMeasurements == 2

\* Number of push calls, over all producers, in the specification of the
\* occupancy reading.
OccPushes == 5

\* The SPSCRingBuffer has 2^SpscBits slots.
SpscBits == 2

CounterMod == CounterLaps * Size

\* The live specification, whose counters never stop, wraps them at a
\* smaller multiple of Size.
LiveMod == 3 * Size

\* Number of push calls, over all producers, in the detection specification.
MaxQuotes == 2

\* get_data_status: age < 1000 is LIVE, age < 5000 is SLOW
LiveLimitMs == 1000
SlowLimitMs == 5000

\* calculate_arbitrage: pairs whose age difference exceeds 500 ms are skipped
MaxAgeSkewMs == 500

\* ArbitrageEngine(): min_profit_bps_(5.0)
DefaultMinProfitBps == 5

\* ArbitrageEngine(): calculation_interval_(100)
DefaultIntervalMs == 100

\* The wall-clock instants (ms) at which the model observes system_clock.
Instants == <<0, 1, 501, 5000, 5001>>

Producers == {"Binance", "Coinbase"}

\* the symbol pushed through the transport specifications
Symbols == {"BTCUSDT"}

\* the native symbol each venue client emits for the asset (detection
\* specification)
NativeSymbol == [p \in Producers |-> IF p = "Coinbase" THEN "BTC-USD" ELSE "BTCUSDT"]

\* the characters of the symbol strings in use
Chars(str) ==
    CASE str = "BTCUSDT" -> <<"B", "T", "C", "U", "S", "D", "T">>
      [] str = "BTC-USD" -> <<"B", "T", "C", "-", "U", "S", "D">>
      [] str = "BTC-EUR" -> <<"B", "T", "C", "-", "E", "U", "R">>
      [] OTHER -> <<>>

\* top of book: prices in hundredths, quantities in tenths
Book(bid, ask, bid_qty, ask_qty) ==
    [bid_price |-> bid, ask_price |-> ask, bid_quantity |-> bid_qty,
     ask_quantity |-> ask_qty]

\* TickerData; n is the emission index of the quote at its producer (history)
Ticker(p, s, book, ts, n) ==
    [exchange |-> p, symbol |-> s,
     bid_price |-> book.bid_price, ask_price |-> book.ask_price,
     bid_quantity |-> book.bid_quantity, ask_quantity |-> book.ask_quantity,
     timestamp_ms |-> ts, n |-> n]

\* slot.data before any write and after std::move took the payload out; an
\* absent world-view entry
NoQuote == Ticker("", "", Book(0, 0, 0, 0), 0, 0)

\* The n-th quote producer p emits for symbol s in the transport
\* specifications.
Quote(p, s, n) == Ticker(p, s, Book(10000, 10001, 20, 30), 0, n)

make_ticker_key(exchange, symbol) == <<exchange, symbol>>

\* the products a venue's feed can carry: product_id / symbol is forwarded
\* as received
VenueSymbols ==
    [p \in Producers |-> IF p = "Coinbase" THEN {"BTC-USD", "BTC-EUR"}
                                            ELSE {"BTCUSDT"}]

Keys == {make_ticker_key(p, s) : p \in Producers, s \in Symbols}
            \cup {make_ticker_key(p, NativeSymbol[p]) : p \in Producers}
            \cup UNION {{make_ticker_key(p, s) : s \in VenueSymbols[p]} :
                            p \in Producers}

\* ------------------------------------------------------------------- state

VARIABLES
    head_,           \* MPSCRingBuffer::head_
    tail_,           \* MPSCRingBuffer::tail_
    buffer_,         \* MPSCRingBuffer::buffer_: index -> [sequence, data]
    dropped_count_,  \* MPSCSharedQueue::dropped_count_
    ppc,             \* producer -> position inside push / try_push
    ppos,            \* producer -> local pos of try_push
    pitem,           \* producer -> the ticker being pushed
    pn,              \* producer -> number of push calls started
    cpc,             \* consumer position inside drain_all / try_pop
    cpos,            \* consumer local pos of try_pop
    citem,           \* consumer local ticker of drain_all
    ccount,          \* consumer local count of drain_all
    market_data_,    \* ArbitrageEngine::market_data_: key -> ticker
    mutex_,          \* MutexSharedQueue::mutex_: "free" or the thread holding it
    queue_,          \* MutexSharedQueue::queue_
    clock,           \* system_clock: index of the current instant in Instants
    min_profit_bps_, \* ArbitrageEngine::min_profit_bps_
    opportunities_,  \* ArbitrageEngine::opportunities_
    opportunities_mutex_,  \* "free" or the thread holding it
    epc,             \* detection thread: position inside calculation_loop
    new_opportunities,     \* calculate_arbitrage's local vector
    rpc,             \* reader thread: position inside get_opportunities
    rlen,            \* reader: size of the vector being copied
    rcopy,           \* reader: the copy under construction; once the call
                     \* has returned, the vector it returned
    rseen,           \* history: the lists opportunities_ held during the
                     \* reader's last call
    scan_h,          \* history: what the pass in progress read (iteration
                     \* order, clock reads, min_profit_bps_)
    running_,        \* ArbitrageEngine::running_
    calculation_thread_,   \* the std::thread object: "none", "running" (its
                     \* thread executes) or "finished" (exited, not yet joined)
    nthreads,        \* number of detection threads that exist
    opc,             \* orchestrator thread: position inside start() / stop()
    report_due,      \* now - last_report_time >= report_interval
    report_count_,   \* ArbitrageEngine::report_count_
    max_reports_,    \* ArbitrageEngine::max_reports_
    calculation_interval_, \* ArbitrageEngine::calculation_interval_ (ms)
    shutdown_callback_,    \* ArbitrageEngine::shutdown_callback_: "none" or a hook
    hook_calls,      \* number of invocations of the shutdown callback
    final_reports,   \* number of latency reports printed by stop()
    terminated,      \* std::terminate has been called
    life_h,          \* history of the lifecycle calls
    nsym,            \* normalisation: the input string
    nout,            \* normalisation: the results of the successive applications
    exchanges_,      \* QueueLatencyTracker::exchanges_: index -> ExchangeStats
    exchange_count_, \* QueueLatencyTracker::exchange_count_
    tsc_frequency_,  \* TSCCalibrator::tsc_frequency_
    tpush,           \* producer -> position and locals of a measured push;
                     \* elapsed: cycles the time-stamp counter has advanced
                     \* since the push read start_tsc
    tqueue,          \* the SharedQueue under measurement: variant, occupancy,
                     \* dropped_count_
    track_h,         \* history of the record_operation calls
    conv_in,         \* conversion: the cycle or nanosecond count given
    conv_out,        \* conversion: the results of the calls made on it
    market_data_mutex,     \* ArbitrageEngine::market_data_ of a second engine,
                     \* built without USE_MPSC_QUEUE and fed the same quotes
    pn_mutex,        \* producer -> number of push calls made on the second
                     \* engine's MutexSharedQueue
    spsc_head_,      \* SPSCRingBuffer::head_
    spsc_tail_,      \* SPSCRingBuffer::tail_
    spsc_buffer_,    \* SPSCRingBuffer::buffer_
    spsc_h,          \* history of the try_push / try_pop calls on it
    occ,             \* producer -> position and locals of the size() call
                     \* that opens MPSCSharedQueue::push
    rec,             \* recording thread -> position and locals of its call of
                     \* ExchangeStats::record
    rec_h,           \* history: the latencies of the record calls begun, and
                     \* the number of calls completed
    report_h,        \* history: the latency reports printed, each with the
                     \* transport's dropped_count_ at that moment
    next_message_id_,      \* LatencyMonitor::next_message_id_
    active_measurements_,  \* LatencyMonitor::active_measurements_: message id
                     \* -> the measurement points recorded so far
    sample_buffer_,  \* LatencyMonitor::sample_buffer_: the measurements submitted
    caller,          \* instrumented thread -> position in its measurement, the
                     \* message id it holds, and its number of complete calls
    live,            \* TRUE: producers never stop pushing, no history kept
    pushed,          \* history: tickers whose try_push returned true, in publish order
    popped,          \* history: tickers try_pop handed to drain_all, in order
    drain_h          \* history: what the current / last drain_all call saw and returned

ringVars == <<head_, tail_, buffer_, dropped_count_>>
prodVars == <<ppc, ppos, pitem, pn>>
consVars == <<cpc, cpos, citem, ccount, market_data_>>
histVars == <<live, pushed, popped, drain_h>>
mutexVars == <<mutex_, queue_>>
engineVars == <<clock, min_profit_bps_, opportunities_, opportunities_mutex_,
                epc, new_opportunities>>
readerVars == <<rpc, rlen, rcopy, rseen>>
\* the engine's lifecycle: flag, thread object, configuration, reports
configVars == <<max_reports_, calculation_interval_, shutdown_callback_>>
lifeVars == <<running_, calculation_thread_, nthreads, opc, report_due,
              report_count_, configVars, hook_calls, final_reports, terminated,
              life_h>>
normVars == <<nsym, nout>>
trackVars == <<exchanges_, exchange_count_, tsc_frequency_, tpush, tqueue,
               track_h>>
convVars == <<conv_in, conv_out>>
\* the world view of the second build, and the single-producer ring
dualVars == <<market_data_mutex, pn_mutex>>
spscVars == <<spsc_head_, spsc_tail_, spsc_buffer_, spsc_h>>
\* the parts only their own specifications run
monVars == <<next_message_id_, active_measurements_, sample_buffer_, caller>>
lateVars == <<report_h, monVars>>
auxVars == <<occ, rec, rec_h, lateVars>>
sideVars == <<dualVars, spscVars, auxVars>>
\* symbol normalisation, latency tracker and timebase
offPure == <<normVars, trackVars, convVars, sideVars>>
\* what only the lifecycle and the pure-function specifications touch
offPass == <<lifeVars, offPure>>
\* what the lock-free transport's steps never touch
offRing == <<mutexVars, engineVars, readerVars, scan_h, offPass>>
\* what the mutex transport's steps never touch
offMutex == <<ringVars, ppos, cpos, engineVars, readerVars, scan_h, offPass>>
\* what the detection specification's steps never touch
offEngine == <<ringVars, ppc, ppos, pitem, cpc, cpos, citem, ccount, mutex_,
               live, pushed, popped, drain_h>>
vars == <<ringVars, prodVars, consVars, histVars, mutexVars, engineVars,
          readerVars, scan_h, lifeVars, offPure>>

\* --------------------------------------------------------------- helpers

\* the value at which size_t wraps
Modulus == IF live THEN LiveMod ELSE CounterMod

Wrap(x) == x % Modulus

\* static_cast<intptr_t>(a) - static_cast<intptr_t>(b) on wrapping counters
SDiff(a, b) ==
    LET d == (a - b) % Modulus
    IN  IF 2 * d >= Modulus THEN d - Modulus ELSE d

\* buffer_[pos & (Size - 1)]
SlotIndex(pos) == pos % Size

\* MPSCRingBuffer::size(): tail - head
RingSize == (tail_ - head_) % Modulus

Min(a, b) == IF a < b THEN a ELSE b

RECURSIVE SumOver(_, _)
SumOver(f, S) ==
    IF S = {} THEN 0
    ELSE LET x == CHOOSE y \in S : TRUE IN f[x] + SumOver(f, S \ {x})

\* push calls started so far, over all producers
PushCalls == SumOver(pn, Producers)

\* history is kept only in the bounded specifications
Log(h, x) == IF live THEN h ELSE Append(h, x)

\* slot at position pos holds a published, not yet reclaimed payload
Published(pos) == buffer_[SlotIndex(pos)].sequence = Wrap(pos + 1)

\* the payloads of the consecutive published positions starting at pos
RECURSIVE ReadyFrom(_, _)
ReadyFrom(pos, k) ==
    IF k < Size /\ Published(pos)
    THEN <<buffer_[SlotIndex(pos)].data>> \o ReadyFrom(Wrap(pos + 1), k + 1)
    ELSE <<>>

NoDrain == [pushed0 |-> 0, popped0 |-> 0, ready0 |-> <<>>, ret |-> -1]

\* no pass in progress
NoScan == [order |-> <<>>, now1 |-> 0, now2 |-> 0, min_bps |-> 0]

\* the configuration the setters control
Config == [min_profit_bps |-> min_profit_bps_, max_reports |-> max_reports_,
           interval |-> calculation_interval_, callback |-> shutdown_callback_]

\* the part of it that decides what a pass emits and when the loop ends
LoopConfig == [min_profit_bps |-> min_profit_bps_, max_reports |-> max_reports_]

\* history of the lifecycle calls: calls of start() and of stop() so far,
\* detection threads spawned so far, whether stop() was called or the loop
\* ended itself, the last call that returned, and the configuration at the
\* last start() that spawned a thread; late_set: set_max_reports or
\* set_shutdown_callback was called after a thread had been spawned
NoCalls == [spawns |-> 0, halted |-> FALSE, last_call |-> "none",
            starts |-> 0, stops |-> 0, late_set |-> FALSE,
            config |-> [min_profit_bps |-> DefaultMinProfitBps,
                        max_reports |-> 0]]

\* ------------------------------------------------------------- timebase

\* width of the unsigned integers of the timebase and the tracker (uint64_t
\* in the source), and the nanoseconds in a second (1000000000ULL in the
\* source), both scaled down together
WordBits == 24
NsPerSecond == 1000

RECURSIVE Pow2(_)
Pow2(n) == IF n = 0 THEN 1 ELSE 2 * Pow2(n - 1)

WordModulus == Pow2(WordBits)

\* UINT64_MAX
UINT64_MAX == WordModulus - 1

\* the calibrated counter frequencies, in cycles per second
Frequencies == {500, 3000}

\* the frequency the tracker's calibrator measured
TrackerFrequency == 500

\* a * b in unsigned arithmetic of WordBits bits, for a below WordModulus:
\* the product wraps.  The factor a is split so that no intermediate value
\* leaves the range of the model checker's integers.
WrapMul(a, b) ==
    LET low == Pow2(WordBits \div 2)
        high == WordModulus \div low
        al == a % low
        ah == a \div low
    IN  (((ah * (b % high)) % high) * low + al * b) % WordModulus

\* TSCCalibrator::cycles_to_ns
cycles_to_ns(cycles) == WrapMul(cycles, NsPerSecond) \div tsc_frequency_

\* TSCCalibrator::ns_to_cycles
ns_to_cycles(ns) == WrapMul(ns, tsc_frequency_) \div NsPerSecond

\* -------------------------------------------------------- latency tracker

MAX_EXCHANGES == 5

\* the sample ring of an entry (10000 in the source)
SAMPLE_BUFFER_SIZE == 2

\* ExchangeStats as default-constructed, with the given name
ExchangeStats(name) ==
    [name |-> name, count |-> 0, total_ns |-> 0, min_ns |-> UINT64_MAX,
     max_ns |-> 0, sample_index |-> 0,
     samples |-> [i \in 0 .. SAMPLE_BUFFER_SIZE - 1 |-> 0],
     occupancy_samples |-> [i \in 0 .. SAMPLE_BUFFER_SIZE - 1 |-> 0]]

\* the names QueueLatencyTracker() registers, in order
KnownExchanges == <<"Binance", "Coinbase", "Kraken", "Bybit">>

\* the indices of the entries named name, among the first cnt
EntriesNamed(table, cnt, name) ==
    {i \in 0 .. cnt - 1 : table[i].name = name}

\* the first of a non-empty set of indices
FirstIndex(S) == CHOOSE i \in S : \A j \in S : i <= j

\* QueueLatencyTracker::register_exchange: the table, count and index
\* returned
register_exchange(table, cnt, name) ==
    IF EntriesNamed(table, cnt, name) # {}
    THEN [table |-> table, count |-> cnt,
          index |-> FirstIndex(EntriesNamed(table, cnt, name))]
    ELSE IF cnt < MAX_EXCHANGES
    THEN [table |-> [table EXCEPT ![cnt].name = name], count |-> cnt + 1,
          index |-> cnt]
    ELSE [table |-> table, count |-> cnt, index |-> 0]

\* QueueLatencyTracker::get_exchange_index
get_exchange_index(name) ==
    IF EntriesNamed(exchanges_, exchange_count_, name) # {}
    THEN FirstIndex(EntriesNamed(exchanges_, exchange_count_, name))
    ELSE 0

\* ExchangeStats::record
record(stats, latency_ns, queue_occupancy) ==
    LET idx == stats.sample_index % SAMPLE_BUFFER_SIZE
    IN  [stats EXCEPT
            !.count = (@ + 1) % WordModulus,
            !.total_ns = (@ + latency_ns) % WordModulus,
            !.min_ns = IF latency_ns < @ THEN latency_ns ELSE @,
            !.max_ns = IF latency_ns > @ THEN latency_ns ELSE @,
            !.sample_index = (@ + 1) % WordModulus,
            !.samples[idx] = latency_ns,
            !.occupancy_samples[idx] = queue_occupancy]

\* mutant of Discarded: only end_tsc <= start_tsc is tested
DiscardedNoZeroTest(start_tsc, end_tsc) ==
    end_tsc <= start_tsc

\* record_operation: the two early returns
Discarded(start_tsc, end_tsc) ==
    \/ start_tsc = 0 \/ end_tsc = 0
    \/ end_tsc <= start_tsc

\* QueueLatencyTracker::record_operation: the table after the call
record_operation(exchange, start_tsc, end_tsc, queue_occupancy) ==
    IF Discarded(start_tsc, end_tsc)
    THEN exchanges_
    ELSE [exchanges_ EXCEPT ![get_exchange_index(exchange)] =
              record(@, cycles_to_ns(end_tsc - start_tsc), queue_occupancy)]

\* the calls of record_operation made so far: their number, how many came
\* from outside push, the calls of register_exchange, per producer the
\* pushes whose two counter readings were apart, and the arguments of the
\* last call
NoRecords == [calls |-> 0, direct |-> 0, registers |-> 0,
              kept |-> [p \in Producers |-> 0],
              last |-> [exchange |-> "", start_tsc |-> 0, end_tsc |-> 0,
                        queue_occupancy |-> 0]]

\* QueueLatencyTracker::QueueLatencyTracker()
InitTrackerTable ==
    /\ exchanges_ = [i \in 0 .. MAX_EXCHANGES - 1 |->
                        IF i < Len(KnownExchanges)
                        THEN ExchangeStats(KnownExchanges[i + 1])
                        ELSE ExchangeStats("")]
    /\ exchange_count_ = Len(KnownExchanges)
    /\ tsc_frequency_ = TrackerFrequency
    /\ track_h = NoRecords

\* template parameter Size of the SPSCRingBuffer, a power of two
SpscSize == Pow2(SpscBits)

\* number of try_push and try_pop calls made on the SPSCRingBuffer: enough
\* to fill it, be refused, empty it and be refused
MaxSpscCalls == 2 * SpscSize + 1

\* what the try_push / try_pop calls on the single-producer ring did:
\* the items the successful pushes stored, the items the successful pops
\* returned, and the last call with what it returned and the size() before
NoSpscCalls ==
    [pushed |-> <<>>, popped |-> <<>>, calls |-> 0, refused |-> 0,
     last |-> [op |-> "none", ret |-> FALSE, size |-> 0]]

\* SPSCRingBuffer(): head_(0), tail_(0); buffer_ holds default items
InitSpsc ==
    /\ spsc_head_ = 0
    /\ spsc_tail_ = 0
    /\ spsc_buffer_ = [i \in 0 .. SpscSize - 1 |-> 0]
    /\ spsc_h = NoSpscCalls

\* the second engine has received nothing
InitDual ==
    /\ market_data_mutex = [k \in Keys |-> NoQuote]
    /\ pn_mutex = [p \in Producers |-> 0]

\* no push has read the occupancy
InitOccupancy ==
    occ = [p \in Producers |-> [pc |-> "idle", tail |-> 0, occupancy |-> 0, n |-> 0]]

\* the threads that record on one entry of the tracker
RecordThreads == {"thread1", "thread2"}

\* no record call is under way
InitRecord ==
    /\ rec = [t \in RecordThreads |->
                 [pc |-> "idle", latency_ns |-> 0, current |-> 0, idx |-> 0]]
    /\ rec_h = [begun |-> <<>>, completed |-> 0]

\* nothing has been printed
InitLate ==
    /\ report_h = <<>>
    /\ next_message_id_ = 0
    /\ active_measurements_ = <<>>
    /\ sample_buffer_ = <<>>
    /\ caller = [c \in Producers |-> [pc |-> "idle", msg_id |-> 0, n |-> 0]]

InitAux == InitOccupancy /\ InitRecord /\ InitLate

InitSide == InitDual /\ InitSpsc /\ InitAux

\* no push is being measured and no conversion is requested
InitMeasurement ==
    /\ InitSide
    /\ InitTrackerTable
    /\ tpush = [p \in Producers |->
                   [pc |-> "idle", start_tsc |-> 0, elapsed |-> 0,
                    occupancy |-> 0, n |-> 0]]
    /\ tqueue = [variant |-> "mutex", size |-> 0, dropped_count_ |-> 0]
    /\ conv_in = 0
    /\ conv_out = <<>>

\* ------------------------------------------------------------------- Init

InitRing ==
    /\ head_ = 0
    /\ tail_ = 0
    /\ buffer_ = [i \in 0 .. Size - 1 |-> [sequence |-> i, data |-> NoQuote]]
    /\ dropped_count_ = 0

InitThreads ==
    /\ ppc = [p \in Producers |-> "idle"]
    /\ ppos = [p \in Producers |-> 0]
    /\ pitem = [p \in Producers |-> NoQuote]
    /\ pn = [p \in Producers |-> 0]
    /\ cpc = "idle"
    /\ cpos = 0
    /\ citem = NoQuote
    /\ ccount = 0
    /\ market_data_ = [k \in Keys |-> NoQuote]

InitHistory ==
    /\ pushed = <<>>
    /\ popped = <<>>
    /\ drain_h = NoDrain

InitMutexQueue ==
    /\ mutex_ = "free"
    /\ queue_ = <<>>

\* ArbitrageEngine::ArbitrageEngine()
InitEngine ==
    /\ clock = 1
    /\ min_profit_bps_ = DefaultMinProfitBps
    /\ max_reports_ = 0
    /\ calculation_interval_ = DefaultIntervalMs
    /\ shutdown_callback_ = "none"
    /\ report_count_ = 0
    /\ opportunities_ = <<>>
    /\ opportunities_mutex_ = "free"
    /\ new_opportunities = <<>>
    /\ scan_h = NoScan
    /\ report_due = FALSE
    /\ hook_calls = 0
    /\ final_reports = 0
    /\ terminated = FALSE
    /\ opc = "idle"
    /\ rpc = "idle"
    /\ rlen = 0
    /\ rcopy = <<>>
    /\ rseen = {<<>>}

\* no symbol is being normalised outside a pass
InitNoSymbol ==
    /\ nsym = <<>>
    /\ nout = <<>>

\* the engine as its constructor leaves it: running_(false), no thread
InitCreated ==
    /\ running_ = FALSE
    /\ calculation_thread_ = "none"
    /\ nthreads = 0
    /\ epc = "none"
    /\ life_h = NoCalls

\* the engine of main.cpp after its start(): the detection thread is about
\* to test running_ for the first time
InitStarted ==
    /\ running_ = TRUE
    /\ calculation_thread_ = "running"
    /\ nthreads = 1
    /\ epc = "check"
    /\ life_h = [NoCalls EXCEPT !.spawns = 1, !.starts = 1,
                                !.last_call = "start"]

Init ==
    /\ InitRing
    /\ InitMutexQueue
    /\ InitThreads
    /\ InitHistory
    /\ InitEngine
    /\ InitStarted
    /\ InitNoSymbol
    /\ InitMeasurement
    /\ live = FALSE

\* ------------------------------------------- MPSCSharedQueue::push (producer)

\* push(): the caller hands over a ticker; try_push starts with
\* pos = tail_.load(relaxed)
PushBegin(p) ==
    /\ ppc[p] = "idle"
    /\ live \/ PushCalls < MaxPushes
    /\ \E s \in Symbols :
         pitem' = [pitem EXCEPT ![p] = Quote(p, s, IF live THEN 1 ELSE pn[p] + 1)]
    /\ pn' = [pn EXCEPT ![p] = IF live THEN 0 ELSE pn[p] + 1]
    /\ ppos' = [ppos EXCEPT ![p] = tail_]
    /\ ppc' = [ppc EXCEPT ![p] = "load_seq"]
    /\ UNCHANGED <<ringVars, consVars, histVars>>
    /\ UNCHANGED offRing

\* mutant of PushBranch: the full test is missing, a slot that still holds
\* an undrained payload is claimed
PushBranchNoFull(diff) == IF diff <= 0 THEN "cas" ELSE "reload"

\* try_push's three-way branch on diff = seq - pos
PushBranch(diff) ==
    IF diff = 0 THEN "cas" ELSE IF diff < 0 THEN "full" ELSE "reload"

\* seq = slot.sequence.load(acquire); diff = seq - pos; branch
PushLoadSeq(p) ==
    /\ ppc[p] = "load_seq"
    /\ LET diff == SDiff(buffer_[SlotIndex(ppos[p])].sequence, ppos[p])
       IN  ppc' = [ppc EXCEPT ![p] = PushBranch(diff)]
    /\ UNCHANGED <<ringVars, ppos, pitem, pn, consVars, histVars>>
    /\ UNCHANGED offRing

\* The live specification compares positions modulo LiveMod where the code
\* compares them modulo 2^64: there a producer that has read tail_ falls at
\* most MaxLag claims behind before its next step, as no thread stays
\* descheduled for 2^63 pushes.
MaxLag == LiveMod \div 2 - Size - 1

LagBounded(p) ==
    \A q \in Producers \ {p} :
        ppc[q] \in {"load_seq", "cas", "reload", "full"}
            => (tail_ + 1 - ppos[q]) % LiveMod <= MaxLag

\* mutant of CasSucceeds: a plain store instead of a compare-exchange
CasAlways(p) == TRUE

\* the compare-exchange succeeds when tail_ still equals the expected pos
CasSucceeds(p) == tail_ = ppos[p]

\* tail_.compare_exchange_weak(pos, pos + 1): on failure pos is reloaded
PushCas(p) ==
    /\ ppc[p] = "cas"
    /\ (live /\ CasSucceeds(p)) => LagBounded(p)
    /\ IF CasSucceeds(p)
       THEN /\ tail_' = Wrap(ppos[p] + 1)
            /\ ppc' = [ppc EXCEPT ![p] = "write"]
            /\ UNCHANGED ppos
       ELSE /\ ppos' = [ppos EXCEPT ![p] = tail_]
            /\ ppc' = [ppc EXCEPT ![p] = "load_seq"]
            /\ UNCHANGED tail_
    /\ UNCHANGED <<head_, buffer_, dropped_count_, pitem, pn, consVars, histVars>>
    /\ UNCHANGED offRing

\* mutant of ReloadedPos: the retry keeps the old pos
ReloadedPosStale(p) == ppos[p]

\* pos = tail_.load(relaxed)
ReloadedPos(p) == tail_

\* diff > 0: reload pos and retry
PushReload(p) ==
    /\ ppc[p] = "reload"
    /\ ppos' = [ppos EXCEPT ![p] = ReloadedPos(p)]
    /\ ppc' = [ppc EXCEPT ![p] = "load_seq"]
    /\ UNCHANGED <<ringVars, pitem, pn, consVars, histVars>>
    /\ UNCHANGED offRing

\* slot.data = std::move(item)
PushWrite(p) ==
    /\ ppc[p] = "write"
    /\ buffer_' = [buffer_ EXCEPT ![SlotIndex(ppos[p])].data = pitem[p]]
    /\ ppc' = [ppc EXCEPT ![p] = "publish"]
    /\ UNCHANGED <<head_, tail_, dropped_count_, ppos, pitem, pn, consVars, histVars>>
    /\ UNCHANGED offRing

\* mutant of PushPublish: try_push returns true without the sequence store
PushPublishNoStore(p) ==
    /\ ppc[p] = "publish"
    /\ ppc' = [ppc EXCEPT ![p] = "idle"]
    /\ pushed' = Log(pushed, pitem[p])
    /\ UNCHANGED <<head_, tail_, buffer_, dropped_count_, ppos, pitem, pn, consVars,
                   live, popped, drain_h>>
    /\ UNCHANGED offRing

\* slot.sequence.store(pos + 1, release); return true; push() returns
PushPublish(p) ==
    /\ ppc[p] = "publish"
    /\ buffer_' = [buffer_ EXCEPT ![SlotIndex(ppos[p])].sequence = Wrap(ppos[p] + 1)]
    /\ ppc' = [ppc EXCEPT ![p] = "idle"]
    /\ pushed' = Log(pushed, pitem[p])
    /\ UNCHANGED <<head_, tail_, dropped_count_, ppos, pitem, pn, consVars,
                   live, popped, drain_h>>
    /\ UNCHANGED offRing

\* mutant of DropCounted: the drop is not counted
DropNotCounted(c) == c

\* dropped_count_.fetch_add(1, relaxed)
DropCounted(c) == c + 1

\* try_push returned false: count the drop; push() returns
PushDropped(p) ==
    /\ ppc[p] = "full"
    /\ dropped_count_' = IF live THEN dropped_count_ ELSE DropCounted(dropped_count_)
    /\ ppc' = [ppc EXCEPT ![p] = "idle"]
    /\ UNCHANGED <<head_, tail_, buffer_, ppos, pitem, pn, consVars, histVars>>
    /\ UNCHANGED offRing

Producer(p) ==
    \/ PushBegin(p)
    \/ PushLoadSeq(p)
    \/ PushCas(p)
    \/ PushReload(p)
    \/ PushWrite(p)
    \/ PushPublish(p)
    \/ PushDropped(p)

\* ---------------------------------- MPSCSharedQueue::drain_all (consumer)

\* drain_all(): count = 0, enter the while loop
DrainBegin ==
    /\ cpc = "idle"
    /\ ccount' = 0
    /\ cpc' = "pop"
    /\ drain_h' = IF live THEN drain_h
                  ELSE [pushed0 |-> Len(pushed), popped0 |-> Len(popped),
                        ready0 |-> ReadyFrom(head_, 0), ret |-> -1]
    /\ UNCHANGED <<ringVars, prodVars, cpos, citem, market_data_, live, pushed, popped>>
    /\ UNCHANGED offRing

\* mutant of AfterEmpty: drain_all polls the empty ring again instead of
\* returning
AfterEmptyPollAgain == "pop"

\* while (ring_buffer_.try_pop(ticker)): a failed try_pop ends the loop and
\* drain_all returns
AfterEmpty == "idle"

\* mutant of PopEmpty: the sequence is compared with pos instead of pos + 1
PopEmptyOffByOne(pos) == SDiff(buffer_[SlotIndex(pos)].sequence, pos) < 0

\* try_pop's emptiness test: diff = seq - (pos + 1) < 0
PopEmpty(pos) == SDiff(buffer_[SlotIndex(pos)].sequence, Wrap(pos + 1)) < 0

\* try_pop: pos = head_.load; seq = slot.sequence.load(acquire); if diff < 0
\* return false, and drain_all returns count
PopLoadSeq ==
    /\ cpc = "pop"
    /\ cpos' = head_
    /\ IF PopEmpty(head_)
       THEN /\ cpc' = AfterEmpty
            /\ drain_h' = IF live THEN drain_h ELSE [drain_h EXCEPT !.ret = ccount]
       ELSE /\ cpc' = "read"
            /\ UNCHANGED drain_h
    /\ UNCHANGED <<ringVars, prodVars, citem, ccount, market_data_, live, pushed, popped>>
    /\ UNCHANGED offRing

\* item = std::move(slot.data)
PopRead ==
    /\ cpc = "read"
    /\ citem' = buffer_[SlotIndex(cpos)].data
    /\ buffer_' = [buffer_ EXCEPT ![SlotIndex(cpos)].data = NoQuote]
    /\ cpc' = "reclaim"
    /\ UNCHANGED <<head_, tail_, dropped_count_, prodVars, cpos, ccount, market_data_, histVars>>
    /\ UNCHANGED offRing

\* mutant of PopReclaim: the slot is reclaimed with pos + Size - 1
PopReclaimShort ==
    /\ cpc = "reclaim"
    /\ buffer_' = [buffer_ EXCEPT ![SlotIndex(cpos)].sequence = Wrap(cpos + Size - 1)]
    /\ cpc' = "advance"
    /\ UNCHANGED <<head_, tail_, dropped_count_, prodVars, cpos, citem, ccount,
                   market_data_, histVars>>
    /\ UNCHANGED offRing

\* slot.sequence.store(pos + Size, release)
PopReclaim ==
    /\ cpc = "reclaim"
    /\ buffer_' = [buffer_ EXCEPT ![SlotIndex(cpos)].sequence = Wrap(cpos + Size)]
    /\ cpc' = "advance"
    /\ UNCHANGED <<head_, tail_, dropped_count_, prodVars, cpos, citem, ccount,
                   market_data_, histVars>>
    /\ UNCHANGED offRing

\* mutant of StoreTicker: an existing entry is kept (insert instead of assign)
StoreTickerKeepFirst(md, ticker) ==
    IF md[make_ticker_key(ticker.exchange, ticker.symbol)] = NoQuote
    THEN [md EXCEPT ![make_ticker_key(ticker.exchange, ticker.symbol)] = ticker]
    ELSE md

\* mutant of StoreTicker: an entry is replaced only by a quote with a later
\* timestamp
StoreTickerNewerStamp(md, ticker) ==
    IF ticker.timestamp_ms > md[make_ticker_key(ticker.exchange, ticker.symbol)].timestamp_ms
    THEN [md EXCEPT ![make_ticker_key(ticker.exchange, ticker.symbol)] = ticker]
    ELSE md

\* market_data[key] = std::move(ticker)
StoreTicker(md, ticker) ==
    [md EXCEPT ![make_ticker_key(ticker.exchange, ticker.symbol)] = ticker]

\* mutant of PopAdvance: head_ is advanced by two
PopAdvanceTwo ==
    /\ cpc = "advance"
    /\ head_' = Wrap(cpos + 2)
    /\ market_data_' = IF make_ticker_key(citem.exchange, citem.symbol) \in Keys
                       THEN StoreTicker(market_data_, citem)
                       ELSE market_data_
    /\ ccount' = IF live THEN 0 ELSE ccount + 1
    /\ popped' = Log(popped, citem)
    /\ cpc' = "pop"
    /\ UNCHANGED <<tail_, buffer_, dropped_count_, prodVars, cpos, citem,
                   live, pushed, drain_h>>
    /\ UNCHANGED offRing

\* head_.store(pos + 1); return true; drain_all's loop body: store under the
\* key, count++
PopAdvance ==
    /\ cpc = "advance"
    /\ head_' = Wrap(cpos + 1)
    /\ market_data_' = IF make_ticker_key(citem.exchange, citem.symbol) \in Keys
                       THEN StoreTicker(market_data_, citem)
                       ELSE market_data_
    /\ ccount' = IF live THEN 0 ELSE ccount + 1
    /\ popped' = Log(popped, citem)
    /\ cpc' = "pop"
    /\ UNCHANGED <<tail_, buffer_, dropped_count_, prodVars, cpos, citem,
                   live, pushed, drain_h>>
    /\ UNCHANGED offRing

Consumer ==
    \/ DrainBegin
    \/ PopLoadSeq
    \/ PopRead
    \/ PopReclaim
    \/ PopAdvance

Next == (\E p \in Producers : Producer(p)) \/ Consumer

Spec == Init /\ [][Next]_vars

\* The lock-free transport with producers that never stop pushing.  No
\* history is kept, the call and pop counters are not advanced, and
\* positions wrap at LiveMod.
InitLive ==
    /\ InitRing
    /\ InitMutexQueue
    /\ InitThreads
    /\ InitHistory
    /\ InitEngine
    /\ InitStarted
    /\ InitNoSymbol
    /\ InitMeasurement
    /\ live = TRUE

\* The detection thread runs on a core of its own (thread_affinity): a step
\* of drain_all that can be taken is taken.  Nothing is assumed of the
\* producers.
SpecLive == InitLive /\ [][Next]_vars /\ WF_vars(Consumer)

\* ------------------------------------------------------ MutexSharedQueue

\* mutant of MutexFree: the critical section is entered without the lock
MutexIgnored == TRUE

\* std::lock_guard<std::mutex> lock(mutex_) can be taken
MutexFree == mutex_ = "free"

\* push(TickerData ticker) is called
MutexPushCall(p) ==
    /\ ppc[p] = "idle"
    /\ PushCalls < MaxPushes
    /\ \E s \in Symbols : pitem' = [pitem EXCEPT ![p] = Quote(p, s, pn[p] + 1)]
    /\ pn' = [pn EXCEPT ![p] = pn[p] + 1]
    /\ ppc' = [ppc EXCEPT ![p] = "lock"]
    /\ UNCHANGED <<consVars, histVars, mutexVars, offMutex>>

\* lock_guard constructor: blocks until the mutex is free
MutexPushLock(p) ==
    /\ ppc[p] = "lock"
    /\ MutexFree
    /\ mutex_' = p
    /\ ppc' = [ppc EXCEPT ![p] = "append"]
    /\ UNCHANGED <<queue_, pitem, pn, consVars, histVars, offMutex>>

\* mutant of QueuePush: the ticker is put at the front
QueuePushFront(q, ticker) == <<ticker>> \o q

\* queue_.push(std::move(ticker))
QueuePush(q, ticker) == Append(q, ticker)

\* occupancy = queue_.size(); queue_.push(std::move(ticker))
MutexPushAppend(p) ==
    /\ ppc[p] = "append"
    /\ queue_' = QueuePush(queue_, pitem[p])
    /\ pushed' = Append(pushed, pitem[p])
    /\ ppc' = [ppc EXCEPT ![p] = "unlock"]
    /\ UNCHANGED <<mutex_, pitem, pn, consVars, live, popped, drain_h, offMutex>>

\* lock_guard destructor; push() returns
MutexPushUnlock(p) ==
    /\ ppc[p] = "unlock"
    /\ mutex_' = "free"
    /\ ppc' = [ppc EXCEPT ![p] = "idle"]
    /\ UNCHANGED <<queue_, pitem, pn, consVars, histVars, offMutex>>

MutexProducer(p) ==
    \/ MutexPushCall(p)
    \/ MutexPushLock(p)
    \/ MutexPushAppend(p)
    \/ MutexPushUnlock(p)

\* drain_all(market_data) is called
MutexDrainCall ==
    /\ cpc = "idle"
    /\ cpc' = "lock"
    /\ drain_h' = [pushed0 |-> Len(pushed) - Cardinality({p \in Producers :
                                                          ppc[p] = "unlock"}),
                   popped0 |-> Len(popped), ready0 |-> queue_, ret |-> -1]
    /\ UNCHANGED <<prodVars, citem, ccount, market_data_, live, pushed, popped,
                   mutexVars, offMutex>>

\* lock_guard constructor; count = 0
MutexDrainLock ==
    /\ cpc = "lock"
    /\ MutexFree
    /\ mutex_' = "consumer"
    /\ ccount' = 0
    /\ cpc' = "loop"
    /\ UNCHANGED <<queue_, prodVars, citem, market_data_, histVars, offMutex>>

\* one iteration of while (!queue_.empty()): front, pop, store, count++
MutexDrainPop ==
    /\ cpc = "loop"
    /\ queue_ # <<>>
    /\ citem' = Head(queue_)
    /\ queue_' = Tail(queue_)
    /\ market_data_' = StoreTicker(market_data_, Head(queue_))
    /\ ccount' = ccount + 1
    /\ popped' = Append(popped, Head(queue_))
    /\ UNCHANGED <<mutex_, prodVars, cpc, live, pushed, drain_h, offMutex>>

\* the queue is empty: return count; lock_guard destructor
MutexDrainReturn ==
    /\ cpc = "loop"
    /\ queue_ = <<>>
    /\ mutex_' = "free"
    /\ cpc' = "idle"
    /\ drain_h' = [drain_h EXCEPT !.ret = ccount]
    /\ UNCHANGED <<queue_, prodVars, citem, ccount, market_data_, live, pushed,
                   popped, offMutex>>

MutexConsumer ==
    \/ MutexDrainCall
    \/ MutexDrainLock
    \/ MutexDrainPop
    \/ MutexDrainReturn

MutexNext == (\E p \in Producers : MutexProducer(p)) \/ MutexConsumer

\* the build without USE_MPSC_QUEUE: SharedQueue = MutexSharedQueue
SpecMutex == Init /\ [][MutexNext]_vars

\* Only one producer thread is scheduled fairly; nothing is assumed about the
\* consumer or the other producers.
SpecProducerFair == Spec /\ WF_vars(Producer("Binance"))

\* the engine thread calls drain_all in every iteration of its loop, so the
\* consumer always takes its next step; a producer may stop at any step of
\* try_push and never take another
SpecConsumerFair == Spec /\ WF_vars(Consumer)

\* what a producer that has claimed a slot still has to do
PushFinish(p) == PushWrite(p) \/ PushPublish(p)

\* the engine thread keeps calling drain_all, and a producer that has
\* claimed a slot takes its next step; a producer may stop anywhere else
SpecDelivery ==
    /\ Spec
    /\ WF_vars(Consumer)
    /\ \A p \in Producers : WF_vars(PushFinish(p))

\* ------------------------------------------------------- ArbitrageEngine
\* The detection specification runs the default build (SharedQueue is
\* MutexSharedQueue).  push and drain_all hold the queue mutex from their first
\* access of the queue to their last, so each is one step here; their steps
\* are those of SpecMutex.  The pass reads system_clock several times: the
\* freshness filter and the first age() read see one instant, the second
\* age() read and the opportunity timestamp may see the next one.  Prices are
\* exact integers: the rounding of the double arithmetic is not modelled.

\* std::chrono::system_clock::now() in milliseconds
Now(c) == Instants[c]

\* top-of-book values the venue clients push (prices in hundredths)
Books ==
    { Book( 9990, 10000, 20, 30),      \* reference book
      Book(10005, 10010, 40, 10),      \* bid exactly 5 bps above 10000
      Book(10004, 10010, 40, 10),      \* bid 4 bps above 10000
      Book(10020,  9980, 15, 25),      \* own bid above own ask
      Book( 9990,     0, 20, 30) }     \* ask price 0

Abs(x) == IF x < 0 THEN 0 - x ELSE x

\* ::toupper on the characters in use
ToUpper(c) ==
    CASE c = "b" -> "B" [] c = "t" -> "T" [] c = "c" -> "C"
      [] c = "u" -> "U" [] c = "s" -> "S" [] c = "d" -> "D"
      [] OTHER -> c

\* mutant of FindDash: the last position of '-'
FindLastDash(str) ==
    IF \E i \in 1..Len(str) : str[i] = "-"
    THEN CHOOSE i \in 1..Len(str) :
             str[i] = "-" /\ \A j \in (i + 1)..Len(str) : str[j] # "-"
    ELSE 0

\* mutant of EndsWith: the string that is only the suffix also matches
EndsWithOrIs(str, suffix) ==
    /\ Len(str) >= Len(suffix)
    /\ SubSeq(str, Len(str) - Len(suffix) + 1, Len(str)) = suffix

\* std::string::find('-'): the first position of '-', 0 for npos
FindDash(str) ==
    IF \E i \in 1..Len(str) : str[i] = "-"
    THEN CHOOSE i \in 1..Len(str) :
             str[i] = "-" /\ \A j \in 1..(i - 1) : str[j] # "-"
    ELSE 0

\* normalized.substr(normalized.length() - k) == suffix, for length() > k
EndsWith(str, suffix) ==
    /\ Len(str) > Len(suffix)
    /\ SubSeq(str, Len(str) - Len(suffix) + 1, Len(str)) = suffix

\* ArbitrageEngine::normalize_symbol, on the characters of the string
normalize_symbol(symbol) ==
    LET normalized == [i \in 1..Len(symbol) |-> ToUpper(symbol[i])]
    IN  IF FindDash(normalized) # 0
        THEN SubSeq(normalized, 1, FindDash(normalized) - 1)
        ELSE IF EndsWith(normalized, <<"U", "S", "D", "T">>)
        THEN SubSeq(normalized, 1, Len(normalized) - 4)
        ELSE IF EndsWith(normalized, <<"U", "S", "D">>)
        THEN SubSeq(normalized, 1, Len(normalized) - 3)
        ELSE normalized

\* TickerData::age() read at instant now
Age(ticker, now) == now - ticker.timestamp_ms

\* mutant of get_data_status: the SLOW limit is inclusive
get_data_status_late(ticker, now) ==
    IF Age(ticker, now) < LiveLimitMs THEN "LIVE"
    ELSE IF Age(ticker, now) <= SlowLimitMs THEN "SLOW"
    ELSE "STALE"

\* get_data_status
get_data_status(ticker, now) ==
    IF Age(ticker, now) < LiveLimitMs THEN "LIVE"
    ELSE IF Age(ticker, now) < SlowLimitMs THEN "SLOW"
    ELSE "STALE"

\* the keys whose entries the first loop of calculate_arbitrage puts into
\* symbol_map
FreshKeys(md, now) ==
    {k \in Keys : /\ md[k] # NoQuote
                  /\ get_data_status(md[k], now) \in {"LIVE", "SLOW"}}

\* the orders in which the unordered_map iteration can deliver a set of keys
Orders(S) ==
    {f \in [1..Cardinality(S) -> S] :
        \A i, j \in 1..Cardinality(S) : f[i] = f[j] => i = j}

\* ((sell - buy) / buy) * 10000.0, kept as an exact fraction; den = 0 with
\* num > 0 is the double +infinity
ProfitBps(sell_price, buy_price) ==
    [num |-> (sell_price - buy_price) * 10000, den |-> buy_price]

\* mutant of ProfitAtLeast: the threshold is exclusive
ProfitAbove(profit_bps, min_bps) ==
    IF profit_bps.den = 0 THEN profit_bps.num > 0
    ELSE profit_bps.num > min_bps * profit_bps.den

\* profit_bps >= min_profit_bps_
ProfitAtLeast(profit_bps, min_bps) ==
    IF profit_bps.den = 0 THEN profit_bps.num > 0
    ELSE profit_bps.num >= min_bps * profit_bps.den

\* mutant of AgeSkewExceeded: the limit is one millisecond too high
AgeSkewExceededLate(age_diff_ms) == age_diff_ms > MaxAgeSkewMs + 1

\* age_diff_ms > 500
AgeSkewExceeded(age_diff_ms) == age_diff_ms > MaxAgeSkewMs

\* ArbitrageOpportunity; buy_age_ms and sell_age_ms are history: the ages
\* the pass measured for the two quotes (the values its debug line prints)
Opportunity(symbol, buy, sell, buy_age, sell_age, now) ==
    [symbol |-> symbol,
     buy_exchange |-> buy.exchange, sell_exchange |-> sell.exchange,
     buy_price |-> buy.ask_price, sell_price |-> sell.bid_price,
     profit_bps |-> ProfitBps(sell.bid_price, buy.ask_price),
     max_quantity |-> Min(buy.ask_quantity, sell.bid_quantity),
     timestamp_ms |-> now,
     buy_age_ms |-> buy_age, sell_age_ms |-> sell_age]

\* mutant of Direction: the opportunity is emitted without the price test
DirectionUntested(symbol, buy, sell, buy_age, sell_age, now, min_bps) ==
    <<Opportunity(symbol, buy, sell, buy_age, sell_age, now)>>

\* one direction of a pair: buy on `buy`, sell on `sell`
Direction(symbol, buy, sell, buy_age, sell_age, now, min_bps) ==
    IF /\ sell.bid_price > buy.ask_price
       /\ ProfitAtLeast(ProfitBps(sell.bid_price, buy.ask_price), min_bps)
    THEN <<Opportunity(symbol, buy, sell, buy_age, sell_age, now)>>
    ELSE <<>>

\* the body of the pair loop for tickers[i] = ticker1, tickers[j] = ticker2;
\* age1 is read at now1, age2 and the opportunity timestamp at now2
PairOpportunities(ticker1, ticker2, now1, now2, min_bps) ==
    IF AgeSkewExceeded(Abs(Age(ticker1, now1) - Age(ticker2, now2)))
    THEN <<>>
    ELSE Direction(normalize_symbol(Chars(ticker1.symbol)), ticker1, ticker2,
                   Age(ticker1, now1), Age(ticker2, now2), now2, min_bps)
         \o Direction(normalize_symbol(Chars(ticker1.symbol)), ticker2, ticker1,
                      Age(ticker2, now2), Age(ticker1, now1), now2, min_bps)

\* the pair loops over the fresh tickers in iteration order: every i < j
\* whose tickers fell into the same symbol_map entry
RECURSIVE ScanPairs(_, _, _, _, _, _)
ScanPairs(tickers, i, j, now1, now2, min_bps) ==
    IF i > Len(tickers) THEN <<>>
    ELSE IF j > Len(tickers)
    THEN ScanPairs(tickers, i + 1, i + 2, now1, now2, min_bps)
    ELSE ( IF normalize_symbol(Chars(tickers[i].symbol))
                = normalize_symbol(Chars(tickers[j].symbol))
           THEN PairOpportunities(tickers[i], tickers[j], now1, now2, min_bps)
           ELSE <<>> )
         \o ScanPairs(tickers, i, j + 1, now1, now2, min_bps)

\* calculate_arbitrage up to the publish block
ScanPass(md, order, now1, now2, min_bps) ==
    ScanPairs([i \in DOMAIN order |-> md[order[i]]], 1, 2, now1, now2, min_bps)

\* the passage of time between two reads of system_clock
Tick ==
    /\ clock < Len(Instants)
    /\ clock' = clock + 1
    /\ UNCHANGED <<min_profit_bps_, opportunities_, opportunities_mutex_, epc,
                   new_opportunities, readerVars, pn, market_data_, queue_,
                   scan_h, offPass, offEngine>>

\* mutant of EnginePush: the client thread stores the quote in the world
\* view itself
EnginePushDirect(p) ==
    /\ PushCalls < MaxQuotes
    /\ \E book \in Books :
          market_data_' = StoreTicker(market_data_,
                              Ticker(p, NativeSymbol[p], book, Now(clock), 0))
    /\ pn' = [pn EXCEPT ![p] = pn[p] + 1]
    /\ UNCHANGED <<engineVars, readerVars, queue_, scan_h, offPass, offEngine>>

\* a venue client decodes a message, stamps it with the system clock and
\* calls update_market_data -> MutexSharedQueue::push
EnginePush(p) ==
    /\ PushCalls < MaxQuotes
    /\ \E book \in Books :
          queue_' = QueuePush(queue_, Ticker(p, NativeSymbol[p], book, Now(clock), 0))
    /\ pn' = [pn EXCEPT ![p] = pn[p] + 1]
    /\ UNCHANGED <<engineVars, readerVars, market_data_, scan_h, offPass,
                   offEngine>>

\* MutexSharedQueue::drain_all applied to a whole queue
RECURSIVE DrainInto(_, _)
DrainInto(md, q) ==
    IF q = <<>> THEN md ELSE DrainInto(StoreTicker(md, Head(q)), Tail(q))

\* calculation_loop: drain_incoming_queues()
EngineDrain ==
    /\ epc = "drain"
    /\ market_data_' = DrainInto(market_data_, queue_)
    /\ queue_' = <<>>
    /\ epc' = "scan"
    /\ UNCHANGED <<clock, min_profit_bps_, opportunities_, opportunities_mutex_,
                   new_opportunities, readerVars, pn, scan_h, offPass, offEngine>>

\* calculation_loop: calculate_arbitrage() up to the publish block
EngineScan ==
    /\ epc = "scan"
    /\ \E c2 \in {clock, Min(clock + 1, Len(Instants))} :
       \E order \in Orders(FreshKeys(market_data_, Now(clock))) :
          /\ new_opportunities' =
                 ScanPass(market_data_, order, Now(clock), Now(c2), min_profit_bps_)
          /\ scan_h' = [order |-> order, now1 |-> Now(clock), now2 |-> Now(c2),
                        min_bps |-> min_profit_bps_]
          /\ clock' = c2
    /\ epc' = "lock"
    /\ UNCHANGED <<min_profit_bps_, opportunities_, opportunities_mutex_,
                   readerVars, pn, market_data_, queue_, offPass, offEngine>>

\* mutant of OppMutexFree: the lock is not honoured
OppMutexIgnored == TRUE

\* std::lock_guard on opportunities_mutex_ can be taken
OppMutexFree == opportunities_mutex_ = "free"

\* calculate_arbitrage: std::lock_guard opp_lock(opportunities_mutex_)
EngineLock ==
    /\ epc = "lock"
    /\ OppMutexFree
    /\ opportunities_mutex_' = "engine"
    /\ epc' = "publish"
    /\ UNCHANGED <<clock, min_profit_bps_, opportunities_, new_opportunities,
                   readerVars, pn, market_data_, queue_, scan_h, offPass,
                   offEngine>>

\* opportunities_ = std::move(new_opportunities); the guard is released
EnginePublish ==
    /\ epc = "publish"
    /\ opportunities_' = new_opportunities
    /\ rseen' = IF rpc = "copy" THEN rseen \cup {new_opportunities} ELSE rseen
    /\ new_opportunities' = <<>>
    /\ opportunities_mutex_' = "free"
    /\ scan_h' = NoScan
    /\ epc' = "report"
    /\ UNCHANGED <<clock, min_profit_bps_, rpc, rlen, rcopy, pn, market_data_,
                   queue_, offPass, offEngine>>

\* mutant of MaxReportsReached: one report early
MaxReportsReachedEarly ==
    max_reports_ > 0 /\ report_count_ + 1 >= max_reports_ - 1

\* max_reports_ > 0 && report_count_ >= max_reports_, after report_count_++
MaxReportsReached ==
    max_reports_ > 0 /\ report_count_ + 1 >= max_reports_

\* calculation_loop: the report block; break on max_reports, else
\* std::this_thread::sleep_for(calculation_interval_)
EngineReport ==
    /\ epc = "report"
    /\ IF report_due
       THEN /\ report_count_' = report_count_ + 1
            /\ report_due' = FALSE
            /\ IF MaxReportsReached
               THEN /\ running_' = FALSE
                    /\ hook_calls' = IF shutdown_callback_ # "none"
                                     THEN hook_calls + 1 ELSE hook_calls
                    /\ calculation_thread_' = "finished"
                    /\ nthreads' = nthreads - 1
                    /\ life_h' = [life_h EXCEPT !.halted = TRUE]
                    /\ epc' = "none"
               ELSE /\ epc' = "check"
                    /\ UNCHANGED <<running_, hook_calls, calculation_thread_,
                                   nthreads, life_h>>
       ELSE /\ epc' = "check"
            /\ UNCHANGED <<report_count_, report_due, running_, hook_calls,
                           calculation_thread_, nthreads, life_h>>
    /\ UNCHANGED <<clock, min_profit_bps_, opportunities_, opportunities_mutex_,
                   new_opportunities, readerVars, pn, market_data_, queue_,
                   scan_h, opc, configVars, final_reports, terminated, offPure,
                   offEngine>>

\* while (running_): the next pass starts, or calculation_loop returns and
\* the thread ends
EngineCheck ==
    /\ epc = "check"
    /\ IF running_
       THEN /\ epc' = "drain"
            /\ UNCHANGED <<calculation_thread_, nthreads>>
       ELSE /\ epc' = "none"
            /\ calculation_thread_' = "finished"
            /\ nthreads' = nthreads - 1
    /\ UNCHANGED <<clock, min_profit_bps_, opportunities_, opportunities_mutex_,
                   new_opportunities, readerVars, pn, market_data_, queue_,
                   scan_h, running_, opc, report_due, report_count_, configVars,
                   hook_calls, final_reports, terminated, life_h, offPure,
                   offEngine>>

Engine ==
    \/ EngineCheck
    \/ EngineDrain
    \/ EngineScan
    \/ EngineLock
    \/ EnginePublish
    \/ EngineReport

\* what a read past the end of the vector's storage yields
NoOpportunity == Opportunity(<<>>, NoQuote, NoQuote, 0, 0, 0)

\* get_opportunities: lock_guard, then the copy constructor reads size()
ReaderLock ==
    /\ rpc = "idle"
    /\ OppMutexFree
    /\ opportunities_mutex_' = "reader"
    /\ rlen' = Len(opportunities_)
    /\ rcopy' = <<>>
    /\ rseen' = {opportunities_}
    /\ rpc' = "copy"
    /\ UNCHANGED <<clock, min_profit_bps_, opportunities_, epc,
                   new_opportunities, pn, market_data_, queue_, scan_h, offPass,
                   offEngine>>

\* the copy constructor copies the next element
ReaderCopy ==
    /\ rpc = "copy"
    /\ Len(rcopy) < rlen
    /\ rcopy' = Append(rcopy, IF Len(rcopy) < Len(opportunities_)
                               THEN opportunities_[Len(rcopy) + 1]
                               ELSE NoOpportunity)
    /\ UNCHANGED <<engineVars, rpc, rlen, rseen, pn, market_data_, queue_,
                   scan_h, offPass, offEngine>>

\* return opportunities_; the guard is released
ReaderReturn ==
    /\ rpc = "copy"
    /\ Len(rcopy) = rlen
    /\ rlen' = 0
    /\ opportunities_mutex_' = "free"
    /\ rpc' = "idle"
    /\ UNCHANGED <<clock, min_profit_bps_, opportunities_, epc,
                   new_opportunities, rcopy, rseen, pn, market_data_, queue_,
                   scan_h, offPass, offEngine>>

Reader == ReaderLock \/ ReaderCopy \/ ReaderReturn

EngineNext ==
    \/ Tick
    \/ \E p \in Producers : EnginePush(p)
    \/ Engine
    \/ Reader

SpecEngine == Init /\ [][EngineNext]_vars

\* ------------------------------------------------------- derived notions

Range(h) == {h[i] : i \in DOMAIN h}

TotalPushes == PushCalls

AllProducersIdle == \A p \in Producers : ppc[p] = "idle"

\* p has claimed a position with its CAS and not yet published it
Claimed(p) == ppc[p] \in {"write", "publish"}

\* the last popped ticker stored under key k, NoQuote when there is none
RECURSIVE LastFor(_, _, _)
LastFor(h, k, i) ==
    IF i = 0 THEN NoQuote
    ELSE IF make_ticker_key(h[i].exchange, h[i].symbol) = k THEN h[i]
    ELSE LastFor(h, k, i - 1)

\* ---------------------------------------------------------------- claims

\* C1: per-producer FIFO on the lock-free transport: two quotes of one
\* producer are popped in the order the producer pushed them (the emission
\* index n of a producer's popped quotes is strictly increasing).
C1_PerProducerFifo ==
    \A i, j \in DOMAIN popped :
        (i < j /\ popped[i].exchange = popped[j].exchange)
            => popped[i].n < popped[j].n

\* C1 witness: two quotes of one producer were popped with a quote of the
\* other producer between them.
C1_Witness ==
    \E i, j, k \in DOMAIN popped :
        /\ i < k /\ k < j
        /\ popped[i].exchange = popped[j].exchange
        /\ popped[k].exchange # popped[i].exchange

\* C2: payload integrity: every popped quote is one whose try_push returned
\* true, no quote is popped twice, the consumer never reads a slot that a
\* producer has claimed and not published, and two producers never hold the
\* same slot.
C2_PayloadIntegrity ==
    /\ \A i \in DOMAIN popped : popped[i] \in Range(pushed)
    /\ \A i, j \in DOMAIN popped : popped[i] = popped[j] => i = j
    /\ cpc \in {"reclaim", "advance"} => citem \in Range(pushed)
    /\ \A p \in Producers :
          Claimed(p) =>
            /\ cpc \in {"read", "reclaim"} => SlotIndex(cpos) # SlotIndex(ppos[p])
            /\ \A q \in Producers \ {p} :
                  Claimed(q) => SlotIndex(ppos[q]) # SlotIndex(ppos[p])

\* C2 witness: the ring wrapped (a producer holds a claimed slot of the
\* second lap) while the consumer is about to read a payload, and quotes of
\* both producers were popped.
C2_Witness ==
    /\ \E p \in Producers : Claimed(p) /\ ppos[p] >= Size
    /\ cpc = "read"
    /\ \E i, j \in DOMAIN popped : popped[i].exchange # popped[j].exchange

\* C3: no loss when the capacity suffices: while the push calls made so far
\* number at most Size, nothing is dropped, and once all of them have
\* returned and a drain_all that began afterwards has returned, exactly that
\* many quotes have been drained.
C3_NoLossWithinCapacity ==
    TotalPushes <= Size =>
        /\ dropped_count_ = 0
        /\ \A p \in Producers : ppc[p] # "full"
        /\ (/\ AllProducersIdle
            /\ cpc = "idle"
            /\ drain_h.ret >= 0
            /\ drain_h.pushed0 = TotalPushes)
               => Len(popped) = TotalPushes

\* C3 witness: both producers pushed, Size pushes in all, and a final
\* drain_all that began after the last push returned has returned.
C3_Witness ==
    /\ TotalPushes = Size
    /\ \A p \in Producers : pn[p] > 0
    /\ AllProducersIdle
    /\ cpc = "idle"
    /\ drain_h.ret > 0
    /\ drain_h.pushed0 = TotalPushes
    /\ Len(popped) = Size


\* C4: drop at capacity.  (a) While the ring holds Size undrained quotes no
\* push can claim a slot; (b) the step that returns from a failed try_push
\* leaves head_, tail_ and the slots unchanged and adds exactly one to
\* dropped_count_; (c) with no draining, once the producers are idle after n
\* push calls, min(n, Size) quotes are enqueued and dropped_count_ is
\* n - min(n, Size).
C4_FullRingRefuses ==
    Len(ReadyFrom(head_, 0)) = Size =>
        \A p \in Producers :
            /\ ppc[p] = "load_seq" =>
                  SDiff(buffer_[SlotIndex(ppos[p])].sequence, ppos[p]) # 0
            /\ ppc[p] = "cas" => tail_ # ppos[p]

C4_DropStep ==
    \A p \in Producers :
        (ppc[p] = "full" /\ ppc'[p] # "full") =>
            /\ dropped_count_' = dropped_count_ + 1
            /\ UNCHANGED <<head_, tail_, buffer_, pushed>>

C4_NoDrainAccounting ==
    (drain_h = NoDrain /\ cpc = "idle" /\ AllProducersIdle) =>
        /\ Len(pushed) = Min(TotalPushes, Size)
        /\ dropped_count_ = TotalPushes - Min(TotalPushes, Size)

C4_DropAtCapacity ==
    /\ [](C4_FullRingRefuses /\ C4_NoDrainAccounting)
    /\ [][C4_DropStep]_vars

\* C4 witness: without any drain, a single producer made more than Size
\* push calls; Size quotes are enqueued and the rest are counted as drops.
C4_Witness ==
    /\ drain_h = NoDrain /\ cpc = "idle" /\ AllProducersIdle
    /\ \E p \in Producers : pn[p] > Size /\ TotalPushes = pn[p]
    /\ Len(pushed) = Size
    /\ dropped_count_ = TotalPushes - Size
    /\ dropped_count_ > 0


\* C6: lock-free push never blocks.  A retry of try_push's loop (after a
\* failed CAS or after diff > 0) happens only when tail_ has moved past the
\* pos this producer held, and continues from a later pos; and with only this
\* producer scheduled fairly (the consumer and the other producers may stop
\* anywhere), every push call it starts returns.
C6_RetryStep ==
    \A p \in Producers :
        (ppc[p] \in {"cas", "reload"} /\ ppc'[p] = "load_seq") =>
            /\ tail_ # ppos[p]
            /\ SDiff(tail_, ppos[p]) > 0
            /\ ppos'[p] = tail_

DrainResult ==
    /\ drain_h.ret = Len(popped) - drain_h.popped0
    /\ \A k \in Keys : market_data_[k] = LastFor(popped, k, Len(popped))

DrainReturned == cpc = "idle" /\ drain_h.ret >= 0

\* C7 as stated: when drain_all has returned, every quote whose push had
\* completed before drain_all started has been removed and stored in the
\* world view, and the returned number is the number of quotes removed.
C7_DrainTakesEveryCompletedPush ==
    DrainReturned =>
        /\ \A i \in 1 .. drain_h.pushed0 : pushed[i] \in Range(popped)
        /\ DrainResult

\* C7 amended: when drain_all has returned, every quote that at its start
\* lay in the unbroken run of published slots beginning at head_ has been
\* removed, in ring order, and stored in the world view under its key
\* (overwriting the prior value), and the returned number is the number of
\* quotes removed.  A quote published behind a position that a producer has
\* claimed and not yet published stays in the ring.
C7_DrainTakesPublishedRun ==
    DrainReturned =>
        /\ drain_h.ret >= Len(drain_h.ready0)
        /\ \A i \in DOMAIN drain_h.ready0 :
              popped[drain_h.popped0 + i] = drain_h.ready0[i]
        /\ DrainResult

\* C7 witness: a drain_all returned after removing at least two quotes, one
\* of which replaced an earlier world-view entry of the same key, while a
\* quote whose push had completed before the call started is still in the
\* ring.
C7_Witness ==
    /\ DrainReturned
    /\ drain_h.ret >= 2
    /\ \E i, j \in DOMAIN popped :
          i < j /\ popped[i].exchange = popped[j].exchange /\ j > drain_h.popped0
    /\ \E i \in 1 .. drain_h.pushed0 : pushed[i] \notin Range(popped)

\* C5: the mutex-guarded variant never drops.  At every moment the quotes
\* already drained followed by the quotes still queued are exactly the quotes
\* appended so far, in the order in which their pushes took the lock; every
\* push call that has returned has appended its quote; a drain_all that has
\* returned has handed over every quote whose push had returned before it
\* was called; and each drained quote went to the world view once.
C5_MutexNeverDrops ==
    /\ popped \o queue_ = pushed
    /\ Len(pushed) = TotalPushes - Cardinality({p \in Producers :
                                                 ppc[p] \in {"lock", "append"}})
    /\ \A i, j \in DOMAIN pushed : pushed[i] = pushed[j] => i = j
    /\ DrainReturned =>
          /\ Len(popped) >= drain_h.pushed0
          /\ DrainResult
    /\ \A k \in Keys : market_data_[k] = LastFor(popped, k, Len(popped))

\* C5 witness: both producers pushed, interleaved, a push is waiting for the
\* lock the consumer holds, and a second drain_all is handing over quotes
\* that were pushed after the first one returned.
C5_Witness ==
    /\ cpc = "loop" /\ mutex_ = "consumer"
    /\ \E p \in Producers : ppc[p] = "lock"
    /\ drain_h.popped0 >= 2
    /\ Len(popped) > drain_h.popped0
    /\ queue_ # <<>>
    /\ \E i, j, k \in DOMAIN pushed :
          /\ i < k /\ k < j
          /\ pushed[i].exchange = pushed[j].exchange
          /\ pushed[k].exchange # pushed[i].exchange

\* C9: snapshot atomicity of the opportunity list.  Whatever the
\* interleaving of the detection thread's publish and a reader's
\* get_opportunities(), the list is not replaced while a call copies it, the
\* partial copy is a prefix of that one list, and the vector the call returns
\* is, element for element, that list: the complete list one detection pass
\* published (or the initial empty list).
C9_SnapshotAtomicity ==
    /\ Cardinality(rseen) = 1
    /\ rpc = "idle" => rcopy \in rseen
    /\ rpc = "copy" =>
          /\ opportunities_mutex_ = "reader"
          /\ epc # "publish"
          /\ rseen = {opportunities_}
          /\ rlen = Len(opportunities_)
          /\ rcopy = SubSeq(opportunities_, 1, Len(rcopy))

\* a call has returned a non-empty list, and a later pass has since replaced
\* that list by a different non-empty one
C9_Witness ==
    /\ rpc = "idle"
    /\ rcopy # <<>>
    /\ opportunities_ # <<>>
    /\ rcopy # opportunities_

\* the quotes of the world view an opportunity was built from
BuySide(opp) ==
    {market_data_[k] : k \in {kk \in Keys :
        /\ market_data_[kk] # NoQuote
        /\ market_data_[kk].exchange = opp.buy_exchange
        /\ normalize_symbol(Chars(market_data_[kk].symbol)) = opp.symbol
        /\ market_data_[kk].ask_price = opp.buy_price}}

SellSide(opp) ==
    {market_data_[k] : k \in {kk \in Keys :
        /\ market_data_[kk] # NoQuote
        /\ market_data_[kk].exchange = opp.sell_exchange
        /\ normalize_symbol(Chars(market_data_[kk].symbol)) = opp.symbol
        /\ market_data_[kk].bid_price = opp.sell_price}}

\* the list a pass is about to publish, or is publishing
PassComplete == epc \in {"lock", "publish"}

\* C10: soundness of every emitted opportunity.  Each opportunity of a list
\* a pass publishes is built from two world-view quotes a (buy side) and b
\* (sell side) with sell_price = b.bid > buy_price = a.ask, profit_bps =
\* (sell_price - buy_price) / buy_price * 10000 >= min_profit_bps, the ages
\* the pass measured for a and b at most 500 ms apart, and max_quantity =
\* min(a.ask_quantity, b.bid_quantity); a published list is never changed
\* afterwards.
C10_OpportunitySound ==
    /\ PassComplete =>
          \A i \in DOMAIN new_opportunities :
             LET opp == new_opportunities[i] IN
             /\ \E a \in BuySide(opp), b \in SellSide(opp) :
                   /\ opp.sell_price = b.bid_price
                   /\ opp.buy_price = a.ask_price
                   /\ opp.max_quantity = Min(a.ask_quantity, b.bid_quantity)
                   /\ \E c1, c2 \in 1..clock :
                         /\ opp.buy_age_ms = Now(c1) - a.timestamp_ms
                         /\ opp.sell_age_ms = Now(c2) - b.timestamp_ms
             /\ opp.sell_price > opp.buy_price
             /\ opp.profit_bps.num = (opp.sell_price - opp.buy_price) * 10000
             /\ opp.profit_bps.den = opp.buy_price
             /\ opp.buy_price > 0 =>
                   opp.profit_bps.num >= min_profit_bps_ * opp.buy_price
             \* a buy price of 0 makes profit_bps the double +infinity
             /\ opp.buy_price = 0 => opp.profit_bps.num > 0
             /\ Abs(opp.buy_age_ms - opp.sell_age_ms) <= MaxAgeSkewMs
    /\ epc = "publish" => opportunities_mutex_ = "engine"

\* a pass is publishing an opportunity whose profit is exactly the minimum
\* and whose quotes' measured ages are exactly 500 ms apart
C10_Witness ==
    /\ epc = "publish"
    /\ \E i \in DOMAIN new_opportunities :
          /\ new_opportunities[i].profit_bps.num
                = min_profit_bps_ * new_opportunities[i].profit_bps.den
          /\ new_opportunities[i].profit_bps.den > 0
          /\ Abs(new_opportunities[i].buy_age_ms
                  - new_opportunities[i].sell_age_ms) = MaxAgeSkewMs
          /\ new_opportunities[i].max_quantity > 0

\* a step in which a producer publishes a slot
PublishStep == \E p \in Producers : PushPublish(p)

\* C8 as stated: drain_all must not block and terminates: every call
\* returns after finitely many pops, also while the producers keep pushing.
C8_DrainAlwaysReturns == (cpc # "idle") ~> (cpc = "idle")

\* try_pop observes the slot at head_ as not published: drain_all returns at
\* that step and leaves the ring as it is
C8_StopsAtUnpublished ==
    [][(PopLoadSeq /\ ~Published(head_))
          => (cpc' = "idle" /\ UNCHANGED <<ringVars, market_data_>>)]_vars

\* C8, amended: drain_all never waits for a producer.  When it observes the
\* slot at head_ as not published it returns at once instead of waiting for
\* it, and a call fails to return only if producers publish slots again and
\* again while it runs: the number of pops of one call is finite whenever
\* the publishing stops, and is not bounded otherwise.
C8_DrainNeverWaits ==
    /\ C8_StopsAtUnpublished
    /\ ([]<>(cpc = "idle")) \/ ([]<><<PublishStep>>_vars)

\* drain_all has popped quotes and comes to a slot that a producer has
\* claimed and not yet published, with a published slot behind it; its next
\* step returns
C8_Witness ==
    /\ live
    /\ cpc = "pop"
    /\ citem # NoQuote
    /\ ~Published(head_)
    /\ \E p \in Producers : Claimed(p) /\ ppos[p] = head_
    /\ Published(Wrap(head_ + 1))

\* the i-th ticker of symbol_map in the iteration order of the pass
PassTicker(i) == market_data_[scan_h.order[i]]

\* the candidates of the pass in progress: a pair i < j of its tickers and a
\* direction, 1 = buy on i and sell on j, 2 = buy on j and sell on i
PassCandidates ==
    {c \in (DOMAIN scan_h.order) \X (DOMAIN scan_h.order) \X {1, 2} : c[1] < c[2]}

CandidateBuy(c) == IF c[3] = 1 THEN PassTicker(c[1]) ELSE PassTicker(c[2])

CandidateSell(c) == IF c[3] = 1 THEN PassTicker(c[2]) ELSE PassTicker(c[1])

\* the age skew the pass measures for the pair of candidate c
CandidateSkew(c) ==
    Abs((scan_h.now1 - PassTicker(c[1]).timestamp_ms)
        - (scan_h.now2 - PassTicker(c[2]).timestamp_ms))

\* candidate c meets the three conditions, thresholds inclusive
CandidateQualifies(c) ==
    /\ normalize_symbol(Chars(PassTicker(c[1]).symbol))
          = normalize_symbol(Chars(PassTicker(c[2]).symbol))
    /\ CandidateSkew(c) <= MaxAgeSkewMs
    /\ CandidateSell(c).bid_price > CandidateBuy(c).ask_price
    /\ \/ CandidateBuy(c).ask_price = 0
       \/ (CandidateSell(c).bid_price - CandidateBuy(c).ask_price) * 10000
             >= scan_h.min_bps * CandidateBuy(c).ask_price

\* opportunity opp is the one of candidate c
OpportunityOf(opp, c) ==
    /\ opp.symbol = normalize_symbol(Chars(CandidateBuy(c).symbol))
    /\ opp.buy_exchange = CandidateBuy(c).exchange
    /\ opp.sell_exchange = CandidateSell(c).exchange
    /\ opp.buy_price = CandidateBuy(c).ask_price
    /\ opp.sell_price = CandidateSell(c).bid_price
    /\ opp.max_quantity = Min(CandidateBuy(c).ask_quantity,
                              CandidateSell(c).bid_quantity)

\* the pass has taken exactly the fresh entries of the world view
C11_FreshEntriesTaken ==
    PassComplete =>
        /\ {scan_h.order[i] : i \in DOMAIN scan_h.order}
              = {k \in Keys : /\ market_data_[k] # NoQuote
                              /\ scan_h.now1 - market_data_[k].timestamp_ms
                                    < SlowLimitMs}
        /\ \A i, j \in DOMAIN scan_h.order :
              scan_h.order[i] = scan_h.order[j] => i = j

\* the list of the pass holds one opportunity per qualifying candidate and
\* nothing else
C11_ListIsTheCandidates ==
    PassComplete =>
        /\ Len(new_opportunities)
              = Cardinality({c \in PassCandidates : CandidateQualifies(c)})
        /\ \A c \in PassCandidates :
              CandidateQualifies(c) =>
                 \E n \in DOMAIN new_opportunities :
                    OpportunityOf(new_opportunities[n], c)
        /\ \A n \in DOMAIN new_opportunities :
              \E c \in PassCandidates :
                 CandidateQualifies(c) /\ OpportunityOf(new_opportunities[n], c)

VenueQuotes(v) ==
    {market_data_[k] : k \in {kk \in Keys : market_data_[kk].exchange = v}}
        \cup {queue_[i] : i \in {ii \in DOMAIN queue_ : queue_[ii].exchange = v}}

\* venue v has pushed, and its last quotes have reached age 5000 ms at now
VenueStale(v, now) ==
    /\ VenueQuotes(v) # {}
    /\ \A q \in VenueQuotes(v) : now - q.timestamp_ms >= SlowLimitMs

\* a world-view entry takes part in a pass if and only if its age, as the
\* pass reads it in its freshness filter, is < 5000 ms
C12_TakesPartIffYoung ==
    PassComplete =>
        \A k \in Keys :
            market_data_[k] # NoQuote =>
                ((\E i \in DOMAIN scan_h.order : scan_h.order[i] = k)
                    <=> (scan_h.now1 - market_data_[k].timestamp_ms < SlowLimitMs))

\* C12 as stated: stale quotes never produce signals; an entry takes part
\* in a pass iff its age is < 5000 ms, and no list published after the last
\* quotes of a venue have reached age 5000 ms names that venue.
C12_NoListAfterStale ==
    /\ C12_TakesPartIffYoung
    /\ epc = "publish" =>
          \A n \in DOMAIN new_opportunities :
             /\ ~VenueStale(new_opportunities[n].buy_exchange, Now(clock))
             /\ ~VenueStale(new_opportunities[n].sell_exchange, Now(clock))

\* C12, amended: an entry takes part in a pass iff its age at the freshness
\* filter of that pass is < 5000 ms, and no pass whose filter runs after the
\* last quotes of a venue have reached age 5000 ms puts that venue into its
\* list.  The list of a pass whose filter ran earlier is published, and
\* stays the current list until the next pass, after that moment.
C12_NoPassAfterStale ==
    /\ C12_TakesPartIffYoung
    /\ PassComplete =>
          \A n \in DOMAIN new_opportunities :
             /\ ~VenueStale(new_opportunities[n].buy_exchange, scan_h.now1)
             /\ ~VenueStale(new_opportunities[n].sell_exchange, scan_h.now1)

\* a pass leaves out the entry whose age has just reached 5000 ms, and so
\* finds nothing for a pair that an earlier pass signalled
C12_Witness ==
    /\ PassComplete
    /\ new_opportunities = <<>>
    /\ opportunities_ # <<>>
    /\ \E k \in Keys : /\ market_data_[k] # NoQuote
                        /\ scan_h.now1 - market_data_[k].timestamp_ms = SlowLimitMs
    /\ \E k \in Keys : /\ market_data_[k] # NoQuote
                        /\ scan_h.now1 - market_data_[k].timestamp_ms < SlowLimitMs

\* C13: zero buy price is guarded: the pass checks the buy price before it
\* divides by it, so no profit is computed with a zero divisor and no
\* opportunity with buy_price = 0 is emitted, in the list a pass builds or
\* in the published list.
C13_ZeroBuyPriceGuarded ==
    /\ \A n \in DOMAIN new_opportunities :
          /\ new_opportunities[n].buy_price # 0
          /\ new_opportunities[n].profit_bps.den # 0
    /\ \A n \in DOMAIN opportunities_ :
          /\ opportunities_[n].buy_price # 0
          /\ opportunities_[n].profit_bps.den # 0

\* ------------------------------------------------- symbol normalisation

\* the longest symbol string given to normalize_symbol
MaxSymbolLen == 6

\* the characters of the symbol strings: letters of the quote-currency
\* suffixes, a base-currency letter, a lower-case letter and the dash
Alphabet == {"B", "U", "S", "D", "T", "t", "-"}

SymbolStrings == UNION {[1..n -> Alphabet] : n \in 0..MaxSymbolLen}

\* normalize_symbol(symbol) is called on the input string
NormalizeInput ==
    /\ nout = <<>>
    /\ nout' = <<normalize_symbol(nsym)>>
    /\ UNCHANGED <<nsym, lifeVars, ringVars, prodVars, consVars, histVars,
                   mutexVars, engineVars, readerVars, scan_h, trackVars,
                   convVars, sideVars>>

\* normalize_symbol is called on the string the previous call returned
NormalizeOutput ==
    /\ Len(nout) = 1
    /\ nout' = Append(nout, normalize_symbol(nout[1]))
    /\ UNCHANGED <<nsym, lifeVars, ringVars, prodVars, consVars, histVars,
                   mutexVars, engineVars, readerVars, scan_h, trackVars,
                   convVars, sideVars>>

NormalizeNext == NormalizeInput \/ NormalizeOutput

InitNormalize ==
    /\ InitRing
    /\ InitMutexQueue
    /\ InitThreads
    /\ InitHistory
    /\ InitEngine
    /\ InitCreated
    /\ live = FALSE
    /\ nsym \in SymbolStrings
    /\ nout = <<>>
    /\ InitMeasurement

SpecNormalize == InitNormalize /\ [][NormalizeNext]_vars

\* str ends in the characters of suffix, and is longer than suffix
HasProperSuffix(str, suffix) ==
    /\ str # suffix
    /\ Len(str) >= Len(suffix)
    /\ \A i \in 1..Len(suffix) : str[Len(str) - Len(suffix) + i] = suffix[i]

\* str without its last k characters
DropLast(str, k) == [i \in 1..(Len(str) - k) |-> str[i]]

\* C14 as stated: normalisation is idempotent: for every symbol string s,
\* normalize_symbol(normalize_symbol(s)) = normalize_symbol(s).
C14_Idempotent ==
    Len(nout) = 2 => nout[2] = nout[1]

\* C14, amended: normalize_symbol(s) has no '-' and no lower-case letter,
\* and a second application returns it unchanged unless it is longer than
\* and ends in USDT or USD; then the second application strips that suffix
\* once more.
C14_IdempotentUpToSuffix ==
    Len(nout) = 2 =>
        /\ \A i \in 1..Len(nout[1]) : nout[1][i] \notin {"-", "t"}
        /\ nout[2] = IF HasProperSuffix(nout[1], <<"U", "S", "D", "T">>)
                     THEN DropLast(nout[1], 4)
                     ELSE IF HasProperSuffix(nout[1], <<"U", "S", "D">>)
                     THEN DropLast(nout[1], 3)
                     ELSE nout[1]

\* normalising "BUSD-U" gives "BUSD", and normalising that gives "B"
C14_Witness ==
    /\ nsym = <<"B", "U", "S", "D", "-", "U">>
    /\ nout = << <<"B", "U", "S", "D">>, <<"B">> >>

\* the ordered rule set, written from its statement: upper case; cut at the
\* first '-'; else strip USDT; else strip USD; else unchanged, a string that
\* is only the suffix included
RuleSet(s) ==
    LET upper == [i \in 1..Len(s) |-> IF s[i] = "t" THEN "T" ELSE s[i]]
        dashes == {i \in 1..Len(s) : upper[i] = "-"}
    IN  IF dashes # {}
        THEN [i \in 1..((CHOOSE d \in dashes : \A e \in dashes : d <= e) - 1)
                 |-> upper[i]]
        ELSE IF HasProperSuffix(upper, <<"U", "S", "D", "T">>)
        THEN DropLast(upper, 4)
        ELSE IF HasProperSuffix(upper, <<"U", "S", "D">>)
        THEN DropLast(upper, 3)
        ELSE upper

\* C15: normalize_symbol implements the ordered rule set for every input:
\* upper case; if the string has a '-' truncate at the first one; else if it
\* ends in USDT strip it; else if it ends in USD strip it; else leave it
\* unchanged; inputs that are only the suffix are left unchanged.
C15_RuleSet ==
    /\ Len(nout) >= 1 => nout[1] = RuleSet(nsym)
    /\ Len(nout) = 2 => nout[2] = RuleSet(nout[1])

\* "USDt" has been normalised: upper case, and the suffix-only string is
\* returned whole
C15_Witness ==
    /\ nsym = <<"U", "S", "D", "t">>
    /\ nout = << <<"U", "S", "D", "T">> >>

\* ------------------------------------------------------ engine lifecycle

\* calls of start() and of stop() made on one engine, and periodic reports
\* that fall due
MaxStartCalls == 2
MaxStopCalls == 2
MaxReportCount == 2

\* the values the owner gives to the setters
ProfitSettings == {DefaultMinProfitBps, DefaultMinProfitBps - 1}
ReportSettings == {0, 2}
IntervalSettings == {DefaultIntervalMs, DefaultIntervalMs \div 2}
CallbackSettings == {"none", "hook"}

\* what the calls of the owner never touch
offLife == <<ringVars, prodVars, consVars, histVars, mutexVars, readerVars,
             scan_h, offPure, clock, opportunities_, opportunities_mutex_,
             new_opportunities, report_due, report_count_, hook_calls>>

\* mutant of StartCall: start() without the test of running_
StartCallUnguarded ==
    /\ opc = "idle"
    /\ life_h.starts < MaxStartCalls
    /\ running_' = TRUE
    /\ opc' = "start_spawn"
    /\ life_h' = [life_h EXCEPT !.starts = @ + 1]
    /\ UNCHANGED <<calculation_thread_, nthreads, epc, min_profit_bps_,
                   configVars, final_reports, terminated, offLife>>

\* start(): if (running_) return; running_ = true
StartCall ==
    /\ opc = "idle"
    /\ life_h.starts < MaxStartCalls
    /\ IF running_
       THEN /\ life_h' = [life_h EXCEPT !.starts = @ + 1, !.last_call = "start"]
            /\ UNCHANGED <<running_, opc>>
       ELSE /\ running_' = TRUE
            /\ opc' = "start_spawn"
            /\ life_h' = [life_h EXCEPT !.starts = @ + 1]
    /\ UNCHANGED <<calculation_thread_, nthreads, epc, min_profit_bps_,
                   configVars, final_reports, terminated, offLife>>

\* start(): calculation_thread_ = std::thread(...).  Assigning to a thread
\* object that is still joinable calls std::terminate: the process ends
\* inside start().
StartSpawn ==
    /\ opc = "start_spawn"
    /\ ~terminated
    /\ IF calculation_thread_ # "none"
       THEN /\ terminated' = TRUE
            /\ UNCHANGED <<calculation_thread_, nthreads, epc, opc, life_h>>
       ELSE /\ calculation_thread_' = "running"
            /\ nthreads' = nthreads + 1
            /\ epc' = "check"
            /\ opc' = "idle"
            /\ life_h' = [life_h EXCEPT !.spawns = @ + 1, !.config = LoopConfig,
                                        !.last_call = "start"]
            /\ UNCHANGED terminated
    /\ UNCHANGED <<running_, min_profit_bps_, configVars, final_reports,
                   offLife>>

\* stop(): running_ = false
StopCall ==
    /\ opc = "idle"
    /\ life_h.stops < MaxStopCalls
    /\ running_' = FALSE
    /\ opc' = "stop_join"
    /\ life_h' = [life_h EXCEPT !.stops = @ + 1, !.halted = TRUE]
    /\ UNCHANGED <<calculation_thread_, nthreads, epc, min_profit_bps_,
                   configVars, final_reports, terminated, offLife>>

\* mutant of StopJoin: stop() does not wait for the thread
StopDetach ==
    /\ opc = "stop_join"
    /\ calculation_thread_' = "none"
    /\ opc' = "stop_report"
    /\ UNCHANGED <<running_, nthreads, epc, min_profit_bps_, configVars,
                   final_reports, terminated, life_h, offLife>>

\* stop(): if (calculation_thread_.joinable()) calculation_thread_.join()
StopJoin ==
    /\ opc = "stop_join"
    /\ calculation_thread_ # "running"
    /\ calculation_thread_' = "none"
    /\ opc' = "stop_report"
    /\ UNCHANGED <<running_, nthreads, epc, min_profit_bps_, configVars,
                   final_reports, terminated, life_h, offLife>>

\* stop(): print_latency_report(); return
StopReport ==
    /\ opc = "stop_report"
    /\ final_reports' = final_reports + 1
    /\ opc' = "idle"
    /\ life_h' = [life_h EXCEPT !.last_call = "stop"]
    /\ UNCHANGED <<running_, calculation_thread_, nthreads, epc,
                   min_profit_bps_, configVars, terminated, offLife>>

\* set_min_profit_bps
SetMinProfitBps(v) ==
    /\ opc = "idle"
    /\ v # min_profit_bps_
    /\ min_profit_bps_' = v
    /\ UNCHANGED <<running_, calculation_thread_, nthreads, epc, opc,
                   configVars, final_reports, terminated, life_h, offLife>>

\* set_calculation_interval
SetCalculationInterval(v) ==
    /\ opc = "idle"
    /\ v # calculation_interval_
    /\ calculation_interval_' = v
    /\ UNCHANGED <<running_, calculation_thread_, nthreads, epc, opc,
                   min_profit_bps_, max_reports_, shutdown_callback_,
                   final_reports, terminated, life_h, offLife>>

\* set_max_reports
SetMaxReports(v) ==
    /\ opc = "idle"
    /\ v # max_reports_
    /\ max_reports_' = v
    /\ life_h' = [life_h EXCEPT !.late_set = @ \/ life_h.spawns > 0]
    /\ UNCHANGED <<running_, calculation_thread_, nthreads, epc, opc,
                   min_profit_bps_, calculation_interval_, shutdown_callback_,
                   final_reports, terminated, offLife>>

\* set_shutdown_callback
SetShutdownCallback(v) ==
    /\ opc = "idle"
    /\ v # shutdown_callback_
    /\ shutdown_callback_' = v
    /\ life_h' = [life_h EXCEPT !.late_set = @ \/ life_h.spawns > 0]
    /\ UNCHANGED <<running_, calculation_thread_, nthreads, epc, opc,
                   min_profit_bps_, max_reports_, calculation_interval_,
                   final_reports, terminated, offLife>>

Setter ==
    \/ \E v \in ProfitSettings : SetMinProfitBps(v)
    \/ \E v \in IntervalSettings : SetCalculationInterval(v)
    \/ \E v \in ReportSettings : SetMaxReports(v)
    \/ \E v \in CallbackSettings : SetShutdownCallback(v)

\* calculation_loop: now - last_report_time >= report_interval becomes true
ReportFallsDue ==
    /\ epc # "none"
    /\ ~report_due
    /\ report_count_ < MaxReportCount
    /\ report_due' = TRUE
    /\ UNCHANGED <<ringVars, prodVars, consVars, histVars, mutexVars,
                   engineVars, readerVars, scan_h, offPure, running_,
                   calculation_thread_, nthreads, opc, report_count_,
                   configVars, hook_calls, final_reports, terminated, life_h>>

Stop == StopCall \/ StopJoin \/ StopReport

Start == StartCall \/ StartSpawn

\* the owner's calls, the report timer and the detection thread; after
\* std::terminate no step is enabled
LifecycleNext == Start \/ Stop \/ Setter \/ ReportFallsDue \/ Engine

InitLifecycle ==
    /\ InitRing
    /\ InitMutexQueue
    /\ InitThreads
    /\ InitHistory
    /\ InitEngine
    /\ InitCreated
    /\ InitNoSymbol
    /\ InitMeasurement
    /\ live = FALSE

SpecLifecycle == InitLifecycle /\ [][LifecycleNext]_vars

\* the detection thread and a caller inside stop() are scheduled
SpecLifecycleFair ==
    /\ SpecLifecycle
    /\ WF_vars(Engine)
    /\ WF_vars(StopJoin \/ StopReport)

\* what a call of start() can change in the engine
StartEffects == <<running_, calculation_thread_, nthreads, epc, opc,
                  min_profit_bps_, configVars, terminated>>

InStop == opc \in {"stop_join", "stop_report"}

\* the last call the owner made was stop(), and it has returned
Stopped == opc = "idle" /\ life_h.last_call = "stop"

C17_NoWayBack ==
    /\ life_h.spawns <= 1
    /\ life_h.halted => ~running_
    /\ ~terminated

\* C18: stop() is idempotent: a call after the first changes no engine
\* state and has no further effect; the final latency report is printed
\* exactly once per engine.
C18_FinalReportOnce ==
    final_reports <= 1

\* C20: configuration is fixed after start(): a setter called after start()
\* is a no-op; every later pass, and the report block, use the values that
\* were set before start().
C20_ConfigFixedAfterStart ==
    /\ scan_h # NoScan => scan_h.min_bps = life_h.config.min_profit_bps
    /\ (calculation_thread_ = "finished" /\ life_h.stops = 0)
          => life_h.config.max_reports > 0
    /\ (life_h.spawns > 0 /\ ~terminated) => LoopConfig = life_h.config

\* the engine was started once, and max_reports and the shutdown hook are
\* those set before start()
StartedOnce == life_h.spawns = 1 /\ ~life_h.late_set

\* C21: auto-shutdown on max_reports: with max_reports = N > 0 the shutdown
\* hook is invoked exactly once, by the detection thread, immediately after
\* the N-th periodic report and not before; the loop then exits without
\* another pass, and the periodic reports never exceed N; with
\* max_reports = 0 the hook is never invoked.
C21_AutoShutdown ==
    /\ [][hook_calls' # hook_calls =>
            /\ hook_calls' = hook_calls + 1
            /\ epc = "report" /\ epc' = "none"
            /\ report_count_' = report_count_ + 1
            /\ max_reports_ > 0 /\ report_count_' >= max_reports_
            /\ ~running_' /\ calculation_thread_' = "finished"]_vars
    /\ []((StartedOnce /\ max_reports_ > 0) =>
            /\ report_count_ <= max_reports_
            /\ report_count_ = max_reports_ => epc = "none"
            /\ shutdown_callback_ # "none" =>
                  hook_calls = IF report_count_ = max_reports_ THEN 1 ELSE 0)
    /\ []((StartedOnce /\ max_reports_ = 0) => hook_calls = 0)

\* the loop has ended itself after the second of two reports and has
\* invoked the hook
C21_Witness ==
    /\ StartedOnce
    /\ max_reports_ = 2
    /\ report_count_ = 2
    /\ shutdown_callback_ = "hook"
    /\ hook_calls = 1
    /\ life_h.stops = 0
    /\ calculation_thread_ = "finished"

\* ------------------------------------------------------- measured pushes

\* pushes measured in one run, the cycles the counter advances during one
\* push, direct calls of record_operation and calls of register_exchange
MaxMeasuredPushes == 6
MaxPushCycles == 1
MaxDirectCalls == 3
MaxRegisterCalls == 2

\* names and counter readings given to record_operation from outside push
DirectNames == {"Binance", "Coinbase", "OKX"}
DirectReadings == 0 .. 2

\* names given to register_exchange after construction
LateNames == {"OKX", "Gate"}

\* the pushes each producer makes: one producer makes them all but one
PushBudget(p) == IF p = "Binance" THEN MaxMeasuredPushes ELSE 1

\* what the steps of the measured transport never touch
offTracker == <<ringVars, prodVars, consVars, histVars, mutexVars, engineVars,
                readerVars, scan_h, lifeVars, normVars, convVars,
                sideVars, tsc_frequency_>>

\* a reading of rdtsc(); the counter has been running since boot
TscReading == 1

\* the time-stamp counter advances by one cycle while pushes are in progress
TscAdvance ==
    /\ \E p \in Producers : tpush[p].pc # "idle"
    /\ \A p \in Producers : tpush[p].pc # "idle" => tpush[p].elapsed < MaxPushCycles
    /\ tpush' = [p \in Producers |->
                    IF tpush[p].pc # "idle"
                    THEN [tpush[p] EXCEPT !.elapsed = @ + 1]
                    ELSE tpush[p]]
    /\ UNCHANGED <<exchanges_, exchange_count_, tqueue, track_h, offTracker>>

\* SharedQueue::push up to the enqueue attempt: the exchange name is kept,
\* MPSCSharedQueue reads queue_.size(), and start_tsc is read
MeasuredPushBegin(p) ==
    /\ tpush[p].pc = "idle"
    /\ tpush[p].n < PushBudget(p)
    /\ tpush' = [tpush EXCEPT ![p].pc = "enqueue",
                              ![p].start_tsc = TscReading,
                              ![p].elapsed = 0,
                              ![p].occupancy = IF tqueue.variant = "mpsc"
                                               THEN tqueue.size ELSE 0]
    /\ UNCHANGED <<exchanges_, exchange_count_, tqueue, track_h,
                   offTracker>>

\* mutant of MeasuredEnqueue: a dropped push returns without measuring
MeasuredEnqueueOrReturn(p) ==
    /\ tpush[p].pc = "enqueue"
    /\ IF tqueue.variant = "mpsc"
       THEN IF tqueue.size < Size
            THEN /\ tqueue' = [tqueue EXCEPT !.size = @ + 1]
                 /\ tpush' = [tpush EXCEPT ![p].pc = "end"]
            ELSE /\ tqueue' = [tqueue EXCEPT !.dropped_count_ = @ + 1]
                 /\ tpush' = [tpush EXCEPT ![p].pc = "idle", ![p].n = @ + 1,
                                           ![p].start_tsc = 0,
                                           ![p].elapsed = 0,
                                           ![p].occupancy = 0]
       ELSE /\ tqueue' = [tqueue EXCEPT !.size = @ + 1]
            /\ tpush' = [tpush EXCEPT ![p].pc = "end",
                                      ![p].occupancy = tqueue.size]
    /\ UNCHANGED <<exchanges_, exchange_count_, track_h, offTracker>>

\* the enqueue attempt: queue_.try_push, counted in dropped_count_ when the
\* ring is full; or, under the mutex, occupancy = queue_.size() and
\* queue_.push
MeasuredEnqueue(p) ==
    /\ tpush[p].pc = "enqueue"
    /\ IF tqueue.variant = "mpsc"
       THEN /\ tqueue' = IF tqueue.size < Size
                         THEN [tqueue EXCEPT !.size = @ + 1]
                         ELSE [tqueue EXCEPT !.dropped_count_ = @ + 1]
            /\ tpush' = [tpush EXCEPT ![p].pc = "end"]
       ELSE /\ tqueue' = [tqueue EXCEPT !.size = @ + 1]
            /\ tpush' = [tpush EXCEPT ![p].pc = "end",
                                      ![p].occupancy = tqueue.size]
    /\ UNCHANGED <<exchanges_, exchange_count_, track_h, offTracker>>

\* end_tsc is read, get_queue_latency_tracker().record_operation(exchange,
\* start_tsc, end_tsc, occupancy) is called, and push returns
MeasuredRecord(p) ==
    /\ tpush[p].pc = "end"
    /\ exchanges_' = record_operation(p, tpush[p].start_tsc,
                                      tpush[p].start_tsc + tpush[p].elapsed,
                                      tpush[p].occupancy)
    /\ track_h' = [track_h EXCEPT
                      !.calls = @ + 1,
                      !.kept[p] = IF tpush[p].elapsed > 0 THEN @ + 1 ELSE @,
                      !.last = [exchange |-> p,
                                start_tsc |-> tpush[p].start_tsc,
                                end_tsc |-> tpush[p].start_tsc
                                              + tpush[p].elapsed,
                                queue_occupancy |-> tpush[p].occupancy]]
    /\ tpush' = [tpush EXCEPT ![p].pc = "idle", ![p].n = @ + 1,
                              ![p].start_tsc = 0, ![p].elapsed = 0,
                              ![p].occupancy = 0]
    /\ UNCHANGED <<exchange_count_, tqueue, offTracker>>

MeasuredPush(p) ==
    \/ MeasuredPushBegin(p)
    \/ MeasuredEnqueue(p)
    \/ MeasuredRecord(p)

\* SharedQueue::drain_all empties the queue
MeasuredDrain ==
    /\ tqueue.size > 0
    /\ tqueue' = [tqueue EXCEPT !.size = 0]
    /\ UNCHANGED <<exchanges_, exchange_count_, tpush, track_h,
                   offTracker>>

\* record_operation called from outside SharedQueue::push
RecordCall(name, start_tsc, end_tsc) ==
    /\ track_h.direct < MaxDirectCalls
    /\ exchanges_' = record_operation(name, start_tsc, end_tsc, 0)
    /\ track_h' = [track_h EXCEPT
                      !.calls = @ + 1,
                      !.direct = @ + 1,
                      !.last = [exchange |-> name, start_tsc |-> start_tsc,
                                end_tsc |-> end_tsc, queue_occupancy |-> 0]]
    /\ UNCHANGED <<exchange_count_, tpush, tqueue, offTracker>>

\* register_exchange called after construction
RegisterCall(name) ==
    /\ track_h.registers < MaxRegisterCalls
    /\ exchanges_' = register_exchange(exchanges_, exchange_count_, name).table
    /\ exchange_count_' =
          register_exchange(exchanges_, exchange_count_, name).count
    /\ track_h' = [track_h EXCEPT !.registers = @ + 1]
    /\ UNCHANGED <<tpush, tqueue, offTracker>>

\* the producers push through the measured transport and the consumer
\* drains it
TrackerNext ==
    \/ TscAdvance
    \/ \E p \in Producers : MeasuredPush(p)
    \/ MeasuredDrain

\* the tracker's public operations called in any order
TrackerCallsNext ==
    \/ \E name \in DirectNames, s \in DirectReadings, e \in DirectReadings :
          RecordCall(name, s, e)
    \/ \E name \in LateNames : RegisterCall(name)

InitTracker ==
    /\ InitRing
    /\ InitMutexQueue
    /\ InitThreads
    /\ InitHistory
    /\ InitEngine
    /\ InitCreated
    /\ InitNoSymbol
    /\ live = FALSE
    /\ InitSide
    /\ InitTrackerTable
    /\ tpush = [p \in Producers |->
                   [pc |-> "idle", start_tsc |-> 0, elapsed |-> 0,
                    occupancy |-> 0, n |-> 0]]
    /\ tqueue \in {[variant |-> v, size |-> 0, dropped_count_ |-> 0] :
                      v \in {"mpsc", "mutex"}}
    /\ conv_in = 0
    /\ conv_out = <<>>

SpecTracker == InitTracker /\ [][TrackerNext]_vars

SpecTrackerCalls == InitTracker /\ [][TrackerCallsNext]_vars

\* the entry registered for a known exchange: its place in KnownExchanges
EntryOf(name) ==
    exchanges_[(CHOOSE i \in 1 .. Len(KnownExchanges) :
                    KnownExchanges[i] = name) - 1]

\* C22: every push is measured exactly once: each call of push, on either
\* variant, calls record_operation exactly once, after the enqueue attempt,
\* with the venue of the pushed quote and end >= start, whether the quote
\* was enqueued or dropped; after n pushes of one venue with end > start the
\* count of that venue is n.
C22_EveryPushMeasured ==
    /\ [][\A p \in Producers :
            tpush'[p].n # tpush[p].n =>
              /\ tpush'[p].n = tpush[p].n + 1
              /\ tpush[p].pc = "end"
              /\ track_h'.calls = track_h.calls + 1
              /\ track_h'.last.exchange = p
              /\ track_h'.last.start_tsc = tpush[p].start_tsc
              /\ track_h'.last.end_tsc >= track_h'.last.start_tsc
              /\ track_h'.last.queue_occupancy = tpush[p].occupancy]_vars
    /\ [][track_h'.calls # track_h.calls =>
            \E p \in Producers : tpush'[p].n = tpush[p].n + 1]_vars
    /\ [](track_h.calls = tpush["Binance"].n + tpush["Coinbase"].n)
    /\ [](\A p \in Producers :
            /\ EntryOf(p).name = p
            /\ EntryOf(p).count = track_h.kept[p]
            /\ EntryOf(p).sample_index = track_h.kept[p])
    /\ [](\A i \in 0 .. MAX_EXCHANGES - 1 :
            exchanges_[i].name \notin Producers => exchanges_[i].count = 0)

\* one producer has pushed MaxMeasuredPushes (six) quotes into the lock-free
\* transport of capacity Size (four) without a drain, each with end > start:
\* Size are enqueued, the others dropped, and the count of its entry is the
\* number of pushes
C22_Witness ==
    /\ tqueue.variant = "mpsc"
    /\ tqueue.size = Size
    /\ tqueue.dropped_count_ = MaxMeasuredPushes - Size
    /\ tqueue.dropped_count_ > 0
    /\ tpush["Binance"].n = MaxMeasuredPushes
    /\ tpush["Coinbase"].n = 0
    /\ tpush["Coinbase"].pc = "idle"
    /\ EntryOf("Binance").count = MaxMeasuredPushes
    /\ track_h.kept["Binance"] = MaxMeasuredPushes

\* a step in which record_operation is called
RecordStep == track_h'.calls = track_h.calls + 1

\* the entries the step changes
ChangedEntries == {i \in 0 .. MAX_EXCHANGES - 1 : exchanges_'[i] # exchanges_[i]}

\* the step adds the sample of the call to entry i: every statistic and both
\* rings
SampleAdded(i) ==
    LET a == track_h'.last
        ns == ((a.end_tsc - a.start_tsc) * NsPerSecond) \div tsc_frequency_
        old == exchanges_[i]
        new == exchanges_'[i]
        slot == old.sample_index % SAMPLE_BUFFER_SIZE
    IN  /\ new.name = old.name
        /\ new.count = old.count + 1
        /\ new.total_ns = old.total_ns + ns
        /\ new.min_ns = IF ns < old.min_ns THEN ns ELSE old.min_ns
        /\ new.max_ns = IF ns > old.max_ns THEN ns ELSE old.max_ns
        /\ new.sample_index = old.sample_index + 1
        /\ new.samples[slot] = ns
        /\ new.occupancy_samples[slot] = a.queue_occupancy
        /\ \A k \in 0 .. SAMPLE_BUFFER_SIZE - 1 :
              k # slot => /\ new.samples[k] = old.samples[k]
                          /\ new.occupancy_samples[k] = old.occupancy_samples[k]

\* C23 as stated: measurement anomalies are discarded without effect: a
\* call with end_cycles <= start_cycles leaves every field of every entry
\* unchanged, and a call with end_cycles > start_cycles is always recorded.
C23_AnomaliesDiscarded ==
    [][RecordStep =>
         /\ track_h'.last.end_tsc <= track_h'.last.start_tsc
               => /\ exchanges_' = exchanges_
                  /\ exchange_count_' = exchange_count_
         /\ track_h'.last.end_tsc > track_h'.last.start_tsc
               => \E i \in 0 .. MAX_EXCHANGES - 1 :
                     /\ ChangedEntries = {i}
                     /\ SampleAdded(i)]_vars

\* C23, amended: a call with end_cycles <= start_cycles, or with
\* start_cycles = 0, leaves every field of every entry unchanged; a call
\* with end_cycles > start_cycles > 0 is always recorded, in one entry.
C23_AnomaliesAndZeroDiscarded ==
    [][RecordStep =>
         /\ (\/ track_h'.last.end_tsc <= track_h'.last.start_tsc
             \/ track_h'.last.start_tsc = 0)
               => /\ exchanges_' = exchanges_
                  /\ exchange_count_' = exchange_count_
         /\ (/\ track_h'.last.end_tsc > track_h'.last.start_tsc
             /\ track_h'.last.start_tsc > 0)
               => \E i \in 0 .. MAX_EXCHANGES - 1 :
                     /\ ChangedEntries = {i}
                     /\ SampleAdded(i)]_vars

\* after a recorded sample, a call with start_cycles = 0 < end_cycles has
\* been made and has left the table as it was
C23_Witness ==
    /\ track_h.calls = 2
    /\ track_h.last.start_tsc = 0
    /\ track_h.last.end_tsc = 2
    /\ \E i \in 0 .. MAX_EXCHANGES - 1 :
          /\ exchanges_[i].count = 1
          /\ \A j \in 0 .. MAX_EXCHANGES - 1 : j # i => exchanges_[j].count = 0

\* C24: tracker entries are keyed by producer name with lazy registration:
\* record_operation with a name that has no entry yet inserts an entry for
\* that name (while fewer than MAX_EXCHANGES exist), and in every case a
\* sample is added only to the entry whose name is the given name, never to
\* the entry of another producer.
C24_KeyedByName ==
    [][RecordStep =>
         /\ (/\ EntriesNamed(exchanges_, exchange_count_,
                               track_h'.last.exchange) = {}
             /\ exchange_count_ < MAX_EXCHANGES)
               => /\ exchange_count_' = exchange_count_ + 1
                  /\ exchanges_'[exchange_count_].name = track_h'.last.exchange
         /\ \A i \in 0 .. MAX_EXCHANGES - 1 :
               exchanges_[i].name # track_h'.last.exchange
                 => /\ exchanges_'[i].count = exchanges_[i].count
                    /\ exchanges_'[i].total_ns = exchanges_[i].total_ns
                    /\ exchanges_'[i].samples = exchanges_[i].samples]_vars

\* ------------------------------------------- a producer stopping mid-push

\* C25: the lock-free transport tolerates a producer that stops for ever at
\* any point inside try_push, before its tail CAS or between the CAS and the
\* store of the slot sequence: the consumer, which keeps calling drain_all,
\* still drains every quote whose push completed, so again and again
\* everything pushed so far has been drained.
C25_HaltedProducerTolerated == []<>(Len(popped) = Len(pushed))

\* ------------------------------------------------ slot sequence discipline

SlotIndices == 0 .. Size - 1

\* the slot's sequence is a position of this slot: free for the producer
\* that claims that position (initially, or reclaimed one lap earlier)
SlotFree(i) == SlotIndex(buffer_[i].sequence) = i

\* the slot's sequence is one more than a position of this slot
SlotPublished(i) == SlotIndex(Wrap(buffer_[i].sequence - 1)) = i

\* the free positions lie from head_ up to one lap ahead of it, the
\* published ones between head_ and tail_
SlotInWindow(i) ==
    /\ SlotFree(i) =>
          /\ SDiff(buffer_[i].sequence, head_) >= 0
          /\ SDiff(buffer_[i].sequence, head_) <= Size
    /\ SlotPublished(i) =>
          /\ SDiff(Wrap(buffer_[i].sequence - 1), head_) >= 0
          /\ SDiff(tail_, Wrap(buffer_[i].sequence - 1)) > 0

\* a claimed position is claimed by one producer, lies between head_ and
\* tail_, and its slot still holds the position as its sequence
ClaimsExclusive ==
    \A p \in Producers :
        Claimed(p) =>
            /\ buffer_[SlotIndex(ppos[p])].sequence = ppos[p]
            /\ SDiff(ppos[p], head_) >= 0
            /\ SDiff(tail_, ppos[p]) > 0
            /\ \A q \in Producers \ {p} : Claimed(q) => ppos[q] # ppos[p]

\* a step that changes the sequence of slot i is the publication of a
\* claimed position of that slot by the producer that claimed it, or the
\* consumer's reclaim of the position it has just moved the payload out of
SequenceStep(i) ==
    \/ \E p \in Producers :
          /\ ppc[p] = "publish" /\ ppc'[p] = "idle"
          /\ SlotIndex(ppos[p]) = i
          /\ buffer_[i].sequence = ppos[p]
          /\ buffer_'[i].sequence = Wrap(ppos[p] + 1)
          /\ buffer_'[i].data = pitem[p]
    \/ /\ cpc = "reclaim"
       /\ SlotIndex(cpos) = i
       /\ buffer_[i].sequence = Wrap(cpos + 1)
       /\ buffer_'[i].sequence = Wrap(cpos + Size)
       /\ buffer_[i].data = NoQuote
       /\ citem # NoQuote

\* C30: slot sequence discipline of the lock-free ring.  Initially slot i
\* holds i.  In every reachable state the sequence of slot i has exactly one
\* of the forms p (free for the producer that claims position p, which
\* includes p + capacity after the reclaim of position p) and p + 1
\* (published at position p) for a position p of slot i.  A producer stores
\* p + 1 only on the slot of a position p it claimed by a successful tail
\* CAS, and the consumer stores p + capacity only after it has moved the
\* payload out.
C30_SlotSequenceDiscipline ==
    /\ \A i \in SlotIndices : buffer_[i].sequence = i
    /\ [](\A i \in SlotIndices :
            /\ SlotFree(i) # SlotPublished(i)
            /\ SlotInWindow(i))
    /\ []ClaimsExclusive
    /\ [][\A i \in SlotIndices :
            buffer_'[i].sequence # buffer_[i].sequence => SequenceStep(i)]_vars

\* every slot has been published and reclaimed, and slot 0 is published
\* again, in its second lap
C30_Witness ==
    /\ \A i \in SlotIndices \ {0} : buffer_[i].sequence = i + Size
    /\ buffer_[0].sequence = Size + 1

\* ------------------------------------------ world view, monotone per key

\* the ring holds nothing and no push or drain_all is under way
EverythingDrained ==
    /\ AllProducersIdle
    /\ cpc = "idle"
    /\ Len(popped) = Len(pushed)

\* C27: the world view evolves monotonically per key.  Each (venue, symbol)
\* key is pushed by one producer.  Every change of the world view's entry
\* for a key replaces it by a quote of that key's producer emitted later
\* than the one it held, so the successive values after successive
\* drain_all calls follow the emission order; and once everything pushed
\* has been drained the entry for a key is the last quote enqueued for it.
C27_WorldViewMonotone ==
    /\ [][\A k \in Keys :
            market_data_'[k] # market_data_[k] =>
                /\ make_ticker_key(market_data_'[k].exchange,
                                   market_data_'[k].symbol) = k
                /\ market_data_'[k].n > market_data_[k].n
                /\ market_data_'[k] \in Range(pushed)]_vars
    /\ [](EverythingDrained =>
            \A k \in Keys : market_data_[k] = LastFor(pushed, k, Len(pushed)))

\* a key's entry has been replaced by a later quote of its producer in a
\* second drain_all call, and everything pushed has been drained
C27_Witness ==
    /\ EverythingDrained
    /\ drain_h.popped0 > 0
    /\ \E k \in Keys :
          /\ market_data_[k].n >= 2
          /\ \E i \in 1 .. drain_h.popped0 :
                make_ticker_key(popped[i].exchange, popped[i].symbol) = k
          /\ \E i \in drain_h.popped0 + 1 .. Len(popped) :
                make_ticker_key(popped[i].exchange, popped[i].symbol) = k

\* ------------------------------------------------- the two builds side by side
\* Two engines receive the same quotes from the same producers: one built
\* with USE_MPSC_QUEUE (its transport is the ring head_, tail_, buffer_ and
\* its world view market_data_), one without (queue_, market_data_mutex).
\* Each push and each drain_all runs from call to return as one step; the
\* two engines' calls interleave freely.

offDual == <<ppc, ppos, pitem, cpc, cpos, citem, ccount, histVars, mutex_,
             engineVars, readerVars, scan_h, lifeVars, normVars, trackVars,
             convVars, spscVars, auxVars>>

DualPushCalls == SumOver(pn_mutex, Producers)

\* MPSCSharedQueue::push run alone: try_push claims and publishes the slot
\* at tail_ when its sequence is tail_, and returns false when the slot has
\* not been reclaimed, and then the drop is counted
RingPushWhole(p) ==
    /\ PushCalls < DualPushes
    /\ pn' = [pn EXCEPT ![p] = pn[p] + 1]
    /\ \E s \in Symbols :
         LET diff == SDiff(buffer_[SlotIndex(tail_)].sequence, tail_)
         IN  /\ PushBranch(diff) # "reload"
             /\ IF PushBranch(diff) = "cas"
                THEN /\ tail_' = Wrap(tail_ + 1)
                     /\ buffer_' = [buffer_ EXCEPT ![SlotIndex(tail_)] =
                                       [sequence |-> Wrap(tail_ + 1),
                                        data |-> Quote(p, s, pn[p] + 1)]]
                     /\ UNCHANGED dropped_count_
                ELSE /\ dropped_count_' = DropCounted(dropped_count_)
                     /\ UNCHANGED <<tail_, buffer_>>
    /\ UNCHANGED <<head_, market_data_, queue_, dualVars, offDual>>

\* while (ring_buffer_.try_pop(ticker)) market_data[key] = ticker: the state
\* in which try_pop returns false
RECURSIVE RingDrained(_, _, _)
RingDrained(head, buffer, md) ==
    IF SDiff(buffer[SlotIndex(head)].sequence, Wrap(head + 1)) < 0
    THEN [head |-> head, buffer |-> buffer, market_data |-> md]
    ELSE RingDrained(Wrap(head + 1),
                     [buffer EXCEPT ![SlotIndex(head)] =
                         [sequence |-> Wrap(head + Size), data |-> NoQuote]],
                     StoreTicker(md, buffer[SlotIndex(head)].data))

\* MPSCSharedQueue::drain_all run alone
RingDrainWhole ==
    /\ head_ # tail_
    /\ LET after == RingDrained(head_, buffer_, market_data_)
       IN  /\ head_' = after.head
           /\ buffer_' = after.buffer
           /\ market_data_' = after.market_data
    /\ UNCHANGED <<tail_, dropped_count_, pn, queue_, dualVars, offDual>>

\* MutexSharedQueue::push: lock, queue_.push, unlock
MutexPushWhole(p) ==
    /\ DualPushCalls < DualPushes
    /\ pn_mutex' = [pn_mutex EXCEPT ![p] = pn_mutex[p] + 1]
    /\ \E s \in Symbols :
         queue_' = QueuePush(queue_, Quote(p, s, pn_mutex[p] + 1))
    /\ UNCHANGED <<ringVars, pn, market_data_, market_data_mutex, offDual>>

\* mutant of QueueDrained: only the front of the queue is stored, the rest
\* is discarded
QueueDrainedFrontOnly(q, md) ==
    IF q = <<>> THEN md ELSE StoreTicker(md, Head(q))

\* while (!queue_.empty()) { market_data[key] = front; pop }: the world
\* view when the queue is empty
RECURSIVE QueueDrained(_, _)
QueueDrained(q, md) ==
    IF q = <<>> THEN md ELSE QueueDrained(Tail(q), StoreTicker(md, Head(q)))

\* MutexSharedQueue::drain_all: lock, empty the queue into the map, unlock
MutexDrainWhole ==
    /\ queue_ # <<>>
    /\ market_data_mutex' = QueueDrained(queue_, market_data_mutex)
    /\ queue_' = <<>>
    /\ UNCHANGED <<ringVars, pn, market_data_, pn_mutex, offDual>>

DualNext ==
    \/ \E p \in Producers : RingPushWhole(p)
    \/ RingDrainWhole
    \/ \E p \in Producers : MutexPushWhole(p)
    \/ MutexDrainWhole

SpecDual == Init /\ [][DualNext]_vars

\* both engines have been pushed the same per-producer sequences of quotes
SameSequences == \A p \in Producers : pn_mutex[p] = pn[p]

\* nothing is left in either transport
BothDrained == head_ = tail_ /\ queue_ = <<>>

offSpsc == <<ringVars, prodVars, consVars, histVars, mutexVars, engineVars,
             readerVars, scan_h, lifeVars, normVars, trackVars, convVars,
             dualVars, auxVars>>

\* (i + 1) & (Size - 1)
SpscNext(i) == (i + 1) % SpscSize

\* size(): (tail - head) & (Size - 1)
SpscSizeNow == (spsc_tail_ - spsc_head_) % SpscSize

\* capacity(): Size - 1
SpscCapacity == SpscSize - 1

\* mutant of SpscFull: the full test is missing
SpscFullNever == FALSE

\* try_push: next_tail == head_.load(acquire)
SpscFull == SpscNext(spsc_tail_) = spsc_head_

\* try_pop: current_head == tail_.load(acquire)
SpscEmpty == spsc_head_ = spsc_tail_

\* try_push(item): the item is the number of the call
SpscTryPush ==
    /\ spsc_h.calls < MaxSpscCalls
    /\ IF SpscFull
       THEN /\ UNCHANGED <<spsc_head_, spsc_tail_, spsc_buffer_>>
            /\ spsc_h' = [spsc_h EXCEPT
                             !.calls = @ + 1, !.refused = @ + 1,
                             !.last = [op |-> "push", ret |-> FALSE,
                                       size |-> SpscSizeNow]]
       ELSE /\ spsc_buffer_' = [spsc_buffer_ EXCEPT ![spsc_tail_] = spsc_h.calls + 1]
            /\ spsc_tail_' = SpscNext(spsc_tail_)
            /\ UNCHANGED spsc_head_
            /\ spsc_h' = [spsc_h EXCEPT
                             !.calls = @ + 1,
                             !.pushed = Append(@, spsc_h.calls + 1),
                             !.last = [op |-> "push", ret |-> TRUE,
                                       size |-> SpscSizeNow]]
    /\ UNCHANGED offSpsc

\* try_pop(item)
SpscTryPop ==
    /\ spsc_h.calls < MaxSpscCalls
    /\ IF SpscEmpty
       THEN /\ UNCHANGED <<spsc_head_, spsc_tail_, spsc_buffer_>>
            /\ spsc_h' = [spsc_h EXCEPT
                             !.calls = @ + 1,
                             !.last = [op |-> "pop", ret |-> FALSE,
                                       size |-> SpscSizeNow]]
       ELSE /\ spsc_head_' = SpscNext(spsc_head_)
            /\ UNCHANGED <<spsc_tail_, spsc_buffer_>>
            /\ spsc_h' = [spsc_h EXCEPT
                             !.calls = @ + 1,
                             !.popped = Append(@, spsc_buffer_[spsc_head_]),
                             !.last = [op |-> "pop", ret |-> TRUE,
                                       size |-> SpscSizeNow]]
    /\ UNCHANGED offSpsc

SpscNextStep == SpscTryPush \/ SpscTryPop

SpecSpsc == Init /\ [][SpscNextStep]_vars

\* a call of the given operation has just returned
SpscCall(op) == spsc_h'.calls = spsc_h.calls + 1 /\ spsc_h'.last.op = op

SpscUntouched ==
    UNCHANGED <<spsc_head_, spsc_tail_, spsc_buffer_>>

\* C28: SPSCRingBuffer<T, Size> used by one producer and one consumer.
\* size() is the number of successful pushes minus the number of successful
\* pops and never exceeds capacity() = Size - 1, so starting from empty k <=
\* Size - 1 pushes without pops all succeed and give size() = k.  A try_push
\* succeeds exactly when size() < Size - 1, and at size() = Size - 1 it
\* returns false and leaves the buffer unchanged.  A try_pop succeeds
\* exactly when size() > 0 and returns the oldest item not yet popped, so
\* the pops return the items in push order, exactly as many as were pushed,
\* and the next try_pop returns false.
C28_SpscFifo ==
    /\ [](/\ SpscSizeNow = Len(spsc_h.pushed) - Len(spsc_h.popped)
          /\ SpscSizeNow <= SpscCapacity
          /\ spsc_h.popped = SubSeq(spsc_h.pushed, 1, Len(spsc_h.popped)))
    /\ [][SpscCall("push") =>
             /\ spsc_h'.last.ret = (SpscSizeNow < SpscCapacity)
             /\ spsc_h'.last.ret => SpscSizeNow' = SpscSizeNow + 1
             /\ ~spsc_h'.last.ret => SpscUntouched]_vars
    /\ [][SpscCall("pop") =>
             /\ spsc_h'.last.ret = (SpscSizeNow > 0)
             /\ spsc_h'.last.ret => SpscSizeNow' = SpscSizeNow - 1
             /\ ~spsc_h'.last.ret => SpscUntouched]_vars

\* three pushes filled the buffer, a fourth was refused, three pops
\* returned the three items in push order and a fourth pop was refused
C28_Witness ==
    /\ spsc_h.calls = 2 * SpscCapacity + 2
    /\ spsc_h.pushed = [i \in 1 .. SpscCapacity |-> i]
    /\ spsc_h.popped = spsc_h.pushed
    /\ spsc_h.refused = 1
    /\ spsc_h.last = [op |-> "pop", ret |-> FALSE, size |-> 0]

\* --------------------------------------------------- TSCCalibrator conversions
\* The calibrator holds a measured frequency; a caller converts one count,
\* a number of cycles or of nanoseconds, in either direction.

\* number of conversions made on one count
MaxConversions == 2

\* the longest duration the conversions are specified for, in seconds
HourSeconds == 3600

\* the durations converted, in seconds
Durations == {0, 1, 2, 5, 6, 30, 60, 600, HourSeconds}

\* cycles or nanoseconds beyond a whole number of seconds
Remainders == {0, 7}

\* the cycle counts and nanosecond counts of the durations, to the hour
ConversionInputs ==
    {d * f + r : d \in Durations \ {HourSeconds}, f \in Frequencies \cup {NsPerSecond},
                 r \in Remainders}
        \cup {HourSeconds * f : f \in Frequencies \cup {NsPerSecond}}

offConversion == <<ringVars, prodVars, consVars, histVars, mutexVars, engineVars,
                   readerVars, scan_h, lifeVars, normVars, sideVars, exchanges_,
                   exchange_count_, tsc_frequency_, tpush, tqueue, track_h,
                   conv_in>>

\* a caller calls cycles_to_ns(conv_in)
CyclesToNsCall ==
    /\ Len(conv_out) < MaxConversions
    /\ conv_out' = Append(conv_out, [op |-> "cycles_to_ns",
                                      result |-> cycles_to_ns(conv_in)])
    /\ UNCHANGED offConversion

\* a caller calls ns_to_cycles(conv_in)
NsToCyclesCall ==
    /\ Len(conv_out) < MaxConversions
    /\ conv_out' = Append(conv_out, [op |-> "ns_to_cycles",
                                      result |-> ns_to_cycles(conv_in)])
    /\ UNCHANGED offConversion

ConversionNext == CyclesToNsCall \/ NsToCyclesCall

\* TSCCalibrator(): calibrate() has stored a frequency
InitConversion ==
    /\ InitRing
    /\ InitMutexQueue
    /\ InitThreads
    /\ InitHistory
    /\ InitEngine
    /\ InitCreated
    /\ InitNoSymbol
    /\ live = FALSE
    /\ InitSide
    /\ exchanges_ = [i \in 0 .. MAX_EXCHANGES - 1 |->
                        IF i < Len(KnownExchanges)
                        THEN ExchangeStats(KnownExchanges[i + 1])
                        ELSE ExchangeStats("")]
    /\ exchange_count_ = Len(KnownExchanges)
    /\ track_h = NoRecords
    /\ tpush = [p \in Producers |->
                   [pc |-> "idle", start_tsc |-> 0, elapsed |-> 0,
                    occupancy |-> 0, n |-> 0]]
    /\ tqueue = [variant |-> "mutex", size |-> 0, dropped_count_ |-> 0]
    /\ tsc_frequency_ \in Frequencies
    /\ conv_in \in ConversionInputs
    /\ conv_out = <<>>

SpecConversion == InitConversion /\ [][ConversionNext]_vars

\* floor(a * b / c) in unbounded arithmetic, computed from a = q * c + r as
\* q * b + floor(r * b / c)
ExactScaled(a, b, c) == (a \div c) * b + ((a % c) * b) \div c

\* C29: the cycle/nanosecond conversions do not overflow: for every cycle
\* count of a duration of up to one hour at the calibrated frequency
\* cycles_to_ns(cycles) is floor(cycles * 10^9 / freq), and for every
\* nanosecond count of up to one hour ns_to_cycles(ns) is
\* floor(ns * freq / 10^9), as computed without wrap-around.
C29_ConversionsExact ==
    \A i \in DOMAIN conv_out :
        /\ (conv_out[i].op = "cycles_to_ns"
               /\ conv_in <= HourSeconds * tsc_frequency_)
             => conv_out[i].result = ExactScaled(conv_in, NsPerSecond, tsc_frequency_)
        /\ (conv_out[i].op = "ns_to_cycles"
               /\ conv_in <= HourSeconds * NsPerSecond)
             => conv_out[i].result = ExactScaled(conv_in, tsc_frequency_, NsPerSecond)

\* ------------------------------------------------------------ ring bounds

\* the number of positions the consumer has reclaimed: try_pop stores the
\* slot's sequence pos + Size before it stores head_ = pos + 1
ReclaimedCount == IF cpc = "advance" THEN Wrap(cpos + 1) ELSE head_

\* C36 as stated: in every reachable state head_ <= tail_ and
\* tail_ - head_ <= capacity, and a producer holds a position p claimed by
\* its tail CAS only when the consumer has reclaimed position p - capacity.
C36_RingBounds ==
    /\ SDiff(tail_, head_) >= 0
    /\ RingSize <= Size
    /\ \A p \in Producers :
          Claimed(p) => SDiff(ppos[p], ReclaimedCount) < Size

\* C36 amended: head_ <= tail_ and tail_ - head_ <= capacity + 1; the
\* difference is capacity + 1 only while the consumer stands between its
\* store of the slot sequence and its store of head_; the claimed positions
\* minus the reclaimed ones never exceed capacity, and a producer holds a
\* position p claimed by its tail CAS only when position p - capacity has
\* been reclaimed.
C36_RingBoundsReclaimed ==
    /\ SDiff(tail_, head_) >= 0
    /\ RingSize <= Size + 1
    /\ RingSize = Size + 1 => cpc = "advance"
    /\ SDiff(tail_, ReclaimedCount) >= 0
    /\ SDiff(tail_, ReclaimedCount) <= Size
    /\ \A p \in Producers :
          Claimed(p) => /\ SDiff(ppos[p], ReclaimedCount) < Size
                        /\ SDiff(ppos[p], head_) >= 0

\* a producer has claimed the slot the consumer has reclaimed and not yet
\* stepped over: tail_ - head_ is capacity + 1
C36_Witness ==
    /\ RingSize = Size + 1
    /\ \E p \in Producers : Claimed(p) /\ ppos[p] = Wrap(head_ + Size)

\* ------------------------------------- the occupancy read by a lock-free push
\* MPSCSharedQueue::push opens with occupancy = queue_.size(): size() loads
\* tail_, then head_, and returns their difference in size_t.  The two loads
\* are separate steps; try_push follows.

offOccupancy == <<ringVars, prodVars, consVars, histVars, mutexVars, engineVars,
                  readerVars, scan_h, lifeVars, normVars, trackVars, convVars,
                  dualVars, spscVars, rec, rec_h, lateVars>>

\* the push calls of each producer: Binance pushes all quotes but one
OccBudget(p) == IF p = "Binance" THEN OccPushes - 1 ELSE 1

\* push(ticker) is called; size(): tail = tail_.load(acquire)
SizeLoadTail(p) ==
    /\ ppc[p] = "idle"
    /\ pn[p] < OccBudget(p)
    /\ occ[p].pc \in {"idle", "done"}
    /\ occ[p].n = pn[p]
    /\ PushCalls < OccPushes
    /\ occ' = [occ EXCEPT ![p] = [pc |-> "head", tail |-> tail_,
                                   occupancy |-> 0, n |-> pn[p] + 1]]
    /\ UNCHANGED offOccupancy

\* return (tail - head), in size_t
SizeDifference(tail, head) == (tail - head) % Modulus

\* size(): head = head_.load(acquire); return (tail - head)
SizeLoadHead(p) ==
    /\ occ[p].pc = "head"
    /\ occ' = [occ EXCEPT ![p] = [pc |-> "done", tail |-> 0,
                                   occupancy |-> SizeDifference(occ[p].tail, head_),
                                   n |-> occ[p].n]]
    /\ UNCHANGED offOccupancy

\* try_push follows the occupancy reading
OccPushBegin(p) ==
    /\ occ[p].pc = "done"
    /\ occ[p].n = pn[p] + 1
    /\ PushBegin(p)

OccProducer(p) ==
    \/ SizeLoadTail(p)
    \/ SizeLoadHead(p)
    \/ OccPushBegin(p)
    \/ PushLoadSeq(p)
    \/ PushCas(p)
    \/ PushReload(p)
    \/ PushWrite(p)
    \/ PushPublish(p)
    \/ PushDropped(p)

OccupancyNext == (\E p \in Producers : OccProducer(p)) \/ Consumer

SpecOccupancy == Init /\ [][OccupancyNext]_vars

\* C31: the occupancy read by a lock-free push is a bounded estimate: under
\* any interleaving with the other producers and the consumer the value
\* size() returns to push lies between 0 and the capacity of the ring and
\* never wraps around.
C31_OccupancyBounded ==
    \A p \in Producers : occ[p].pc = "done" => occ[p].occupancy <= Size

\* -------------------------------------------------------- eventual delivery

\* C37: eventual delivery.  If the consumer keeps calling drain_all and
\* every producer that has claimed a slot takes its next step, every quote
\* whose push was enqueued is eventually popped (the push calls being
\* finitely many, from some moment on everything enqueued has been popped),
\* and a popped quote is stored in the world view under its key in the step
\* that pops it; no published slot stays behind a slot in front of it for
\* ever.
C37_EventualDelivery ==
    /\ <>[](Len(popped) = Len(pushed))
    /\ [][Len(popped') > Len(popped) =>
             LET t == popped'[Len(popped')]
             IN  /\ t \in Range(pushed)
                 /\ market_data_'[make_ticker_key(t.exchange, t.symbol)] = t]_vars

\* a quote published behind a claimed, unpublished position has been popped
\* and stored
C37_Witness ==
    /\ Len(popped) >= 2
    /\ \E i \in DOMAIN popped : \E j \in DOMAIN pushed :
          /\ j < i
          /\ pushed[j] = popped[i]
          /\ market_data_[make_ticker_key(popped[i].exchange, popped[i].symbol)]
                = popped[i]

\* ----------------------------------------- ExchangeStats::record, concurrent
\* Several threads call record on the entry exchanges_[0]; each atomic
\* operation of record is one step.  A compare_exchange_weak that fails
\* spuriously reloads the value it already holds and changes nothing.

offRecord == <<ringVars, prodVars, consVars, histVars, mutexVars, engineVars,
               readerVars, scan_h, lifeVars, normVars, convVars, dualVars,
               spscVars, occ, exchange_count_, tsc_frequency_, tpush, tqueue,
               track_h, lateVars>>

Latencies == 1 .. MaxLatency

\* the thread t moves to position pc with the local current
RecAt(t, pc, current) == [rec EXCEPT ![t].pc = pc, ![t].current = current]

\* record(latency_ns, queue_occupancy) is called: count.fetch_add(1)
RecordCount(t) ==
    /\ rec[t].pc = "idle"
    /\ Len(rec_h.begun) < MaxRecordCalls
    /\ \E l \in Latencies :
         /\ rec' = [rec EXCEPT ![t] = [pc |-> "total", latency_ns |-> l,
                                        current |-> 0, idx |-> 0]]
         /\ rec_h' = [rec_h EXCEPT !.begun = Append(@, l)]
    /\ exchanges_' = [exchanges_ EXCEPT ![0].count = (@ + 1) % WordModulus]
    /\ UNCHANGED offRecord

\* total_ns.fetch_add(latency_ns)
RecordTotal(t) ==
    /\ rec[t].pc = "total"
    /\ exchanges_' = [exchanges_ EXCEPT
                         ![0].total_ns = (@ + rec[t].latency_ns) % WordModulus]
    /\ rec' = RecAt(t, "load_min", 0)
    /\ UNCHANGED <<rec_h, offRecord>>

\* current_min = min_ns.load()
RecordLoadMin(t) ==
    /\ rec[t].pc = "load_min"
    /\ rec' = RecAt(t, "cas_min", exchanges_[0].min_ns)
    /\ UNCHANGED <<exchanges_, rec_h, offRecord>>

\* mutant of MinCasSucceeds: a plain store, whatever min_ns holds now
MinStoreAlways(t) == TRUE

\* min_ns.compare_exchange_weak(current_min, latency_ns) succeeds when
\* min_ns still holds current_min
MinCasSucceeds(t) == exchanges_[0].min_ns = rec[t].current

\* while (latency_ns < current_min && !min_ns.compare_exchange_weak(...));
\* a failed exchange loads the present value into current_min
RecordCasMin(t) ==
    /\ rec[t].pc = "cas_min"
    /\ IF rec[t].latency_ns < rec[t].current
       THEN IF MinCasSucceeds(t)
            THEN /\ exchanges_' = [exchanges_ EXCEPT ![0].min_ns = rec[t].latency_ns]
                 /\ rec' = RecAt(t, "load_max", 0)
            ELSE /\ rec' = RecAt(t, "cas_min", exchanges_[0].min_ns)
                 /\ UNCHANGED exchanges_
       ELSE /\ rec' = RecAt(t, "load_max", 0)
            /\ UNCHANGED exchanges_
    /\ UNCHANGED <<rec_h, offRecord>>

\* current_max = max_ns.load()
RecordLoadMax(t) ==
    /\ rec[t].pc = "load_max"
    /\ rec' = RecAt(t, "cas_max", exchanges_[0].max_ns)
    /\ UNCHANGED <<exchanges_, rec_h, offRecord>>

\* while (latency_ns > current_max && !max_ns.compare_exchange_weak(...))
RecordCasMax(t) ==
    /\ rec[t].pc = "cas_max"
    /\ IF rec[t].latency_ns > rec[t].current
       THEN IF exchanges_[0].max_ns = rec[t].current
            THEN /\ exchanges_' = [exchanges_ EXCEPT ![0].max_ns = rec[t].latency_ns]
                 /\ rec' = RecAt(t, "index", 0)
            ELSE /\ rec' = RecAt(t, "cas_max", exchanges_[0].max_ns)
                 /\ UNCHANGED exchanges_
       ELSE /\ rec' = RecAt(t, "index", 0)
            /\ UNCHANGED exchanges_
    /\ UNCHANGED <<rec_h, offRecord>>

\* idx = sample_index.fetch_add(1) % SAMPLE_BUFFER_SIZE
RecordIndex(t) ==
    /\ rec[t].pc = "index"
    /\ rec' = [rec EXCEPT ![t].pc = "sample", ![t].current = 0,
                           ![t].idx = exchanges_[0].sample_index % SAMPLE_BUFFER_SIZE]
    /\ exchanges_' = [exchanges_ EXCEPT ![0].sample_index = (@ + 1) % WordModulus]
    /\ UNCHANGED <<rec_h, offRecord>>

\* samples[idx] = latency_ns; occupancy_samples[idx] = queue_occupancy;
\* record returns
RecordSample(t) ==
    /\ rec[t].pc = "sample"
    /\ exchanges_' = [exchanges_ EXCEPT ![0].samples[rec[t].idx] = rec[t].latency_ns,
                                         ![0].occupancy_samples[rec[t].idx] = 0]
    /\ rec' = [rec EXCEPT ![t] = [pc |-> "idle", latency_ns |-> 0,
                                   current |-> 0, idx |-> 0]]
    /\ rec_h' = [rec_h EXCEPT !.completed = @ + 1]
    /\ UNCHANGED offRecord

RecordThread(t) ==
    \/ RecordCount(t)
    \/ RecordTotal(t)
    \/ RecordLoadMin(t)
    \/ RecordCasMin(t)
    \/ RecordLoadMax(t)
    \/ RecordCasMax(t)
    \/ RecordIndex(t)
    \/ RecordSample(t)

RecordNext == \E t \in RecordThreads : RecordThread(t)

SpecRecord == Init /\ [][RecordNext]_vars

RECURSIVE SeqSum(_)
SeqSum(q) == IF q = <<>> THEN 0 ELSE Head(q) + SeqSum(Tail(q))

SeqMin(q) == CHOOSE x \in Range(q) : \A y \in Range(q) : x <= y

SeqMax(q) == CHOOSE x \in Range(q) : \A y \in Range(q) : x >= y

\* every record call begun has returned
RecordsComplete ==
    /\ rec_h.completed = Len(rec_h.begun)
    /\ \A t \in RecordThreads : rec[t].pc = "idle"

\* C32: tracker statistics are exact under concurrent recording.  When every
\* record call of several threads on one entry has returned, count is the
\* number of calls, total_ns the sum of their latencies, min_ns the smallest
\* and max_ns the largest latency; and at every moment after a call has
\* returned min_ns <= max_ns.
C32_StatisticsExact ==
    /\ (RecordsComplete /\ rec_h.completed > 0) =>
          /\ exchanges_[0].count = Len(rec_h.begun)
          /\ exchanges_[0].total_ns = SeqSum(rec_h.begun)
          /\ exchanges_[0].min_ns = SeqMin(rec_h.begun)
          /\ exchanges_[0].max_ns = SeqMax(rec_h.begun)
    /\ rec_h.completed > 0 => exchanges_[0].min_ns <= exchanges_[0].max_ns

\* three calls with different latencies have returned, and the call with
\* the smallest latency was not the last to begin
C32_Witness ==
    /\ RecordsComplete
    /\ rec_h.completed = 3
    /\ SeqMin(rec_h.begun) < SeqMax(rec_h.begun)
    /\ rec_h.begun[3] # SeqMin(rec_h.begun)
    /\ rec_h.begun[3] # SeqMax(rec_h.begun)

\* ------------------------------------------------- directions of a pair

\* o and r are the two directions of one pair of quotes
Reverse(o, r) ==
    /\ o.symbol = r.symbol
    /\ o.buy_exchange = r.sell_exchange
    /\ o.sell_exchange = r.buy_exchange

\* the list holds both directions of a pair
BothDirections(list) ==
    \E m, n \in DOMAIN list : m # n /\ Reverse(list[m], list[n])

\* C33 as stated: at most one direction per pair: for every pair of
\* world-view quotes a pass considers, at most one of the opportunities
\* (buy a / sell b) and (buy b / sell a) is emitted, whatever the quote
\* values, quotes with bid above ask included.
C33_OneDirectionPerPair ==
    /\ ~BothDirections(new_opportunities)
    /\ ~BothDirections(opportunities_)

\* the quote bought in o and sold in r has its bid above its ask: r sells at
\* its bid, o buys at its ask
CrossedQuote(o, r) == r.sell_price > o.buy_price

\* C33 amended: both directions of a pair are emitted only when one of the
\* two quotes has its own bid above its own ask; for a pair of quotes with
\* bid <= ask at most one direction is emitted.
C33_OneDirectionUnlessCrossed ==
    \A list \in {new_opportunities, opportunities_} :
        \A m, n \in DOMAIN list :
            (m # n /\ Reverse(list[m], list[n]))
                => (CrossedQuote(list[m], list[n]) \/ CrossedQuote(list[n], list[m]))

\* a published list holds one direction of a pair of quotes with bid <= ask
\* and not the other
C33_Witness ==
    /\ opportunities_ # <<>>
    /\ ~BothDirections(opportunities_)
    /\ \E n \in DOMAIN opportunities_ :
          \E k1, k2 \in Keys :
              /\ market_data_[k1].exchange = opportunities_[n].buy_exchange
              /\ market_data_[k2].exchange = opportunities_[n].sell_exchange
              /\ market_data_[k1].ask_price = opportunities_[n].buy_price
              /\ market_data_[k2].bid_price = opportunities_[n].sell_price
              /\ market_data_[k1].bid_price <= market_data_[k1].ask_price
              /\ market_data_[k2].bid_price <= market_data_[k2].ask_price

\* ---------------------------------------------------------- pass ordering

\* the successive positions of calculation_loop: drain_incoming_queues,
\* calculate_arbitrage (scan, lock_guard, publish), the report block, then
\* sleep_for and the loop test; the thread ends from the report block
\* (break) or from the loop test
PassOrder ==
    { <<"drain", "scan">>, <<"scan", "lock">>, <<"lock", "publish">>,
      <<"publish", "report">>, <<"report", "check">>, <<"report", "none">>,
      <<"check", "drain">>, <<"check", "none">> }

\* the list calculate_arbitrage builds from the world view as it stands
ListOfWorldView ==
    ScanPass(market_data_, scan_h.order, scan_h.now1, scan_h.now2,
             scan_h.min_bps)

\* C34: pass ordering of the detection loop.  Every iteration runs
\* drain_all, scan, publish, optional report, sleep in this order; the
\* world view changes only in the drain step of the detection thread, which
\* empties the queue into it; the list a pass publishes is the list computed
\* from the world view left by the drain of the same pass.
C34_PassOrdering ==
    /\ [](PassComplete => new_opportunities = ListOfWorldView)
    /\ [][ /\ epc' # epc => <<epc, epc'>> \in PassOrder
           /\ market_data_' # market_data_ =>
                 /\ epc = "drain" /\ epc' = "scan"
                 /\ market_data_' = DrainInto(market_data_, queue_)
           /\ opportunities_' # opportunities_ =>
                 /\ epc = "publish" /\ epc' = "report"
                 /\ opportunities_' = ListOfWorldView ]_vars

\* a pass that drained the queue has published a non-empty list computed
\* from the quotes and stands in its report block
C34_Witness ==
    /\ epc = "report"
    /\ opportunities_ # <<>>
    /\ queue_ = <<>>
    /\ \E k \in Keys : market_data_[k] # NoQuote

\* ------------------------------------------------------- the report path
\* The lock-free transport with each push and each drain_all run from call
\* to return as one step, and the latency reports the engine prints: the
\* periodic report of calculation_loop and the final report of stop().

offReport == <<head_, tail_, buffer_, dropped_count_, pn, market_data_, queue_,
               dualVars, ppc, ppos, pitem, cpc, cpos, citem, ccount, histVars,
               mutex_, engineVars, readerVars, scan_h, lifeVars, normVars,
               trackVars, convVars, spscVars, occ, rec, rec_h, monVars>>

\* QueueLatencyTracker::print_report: the latency table of the entries with
\* count > 0, then print_histogram and print_occupancy over the entries
\* that hold samples
print_report ==
    LET entries == {i \in 0 .. exchange_count_ - 1 : exchanges_[i].count # 0}
        sampled == {i \in 0 .. exchange_count_ - 1 :
                       exchanges_[i].sample_index # 0}
    IN  [latency |-> {[name |-> exchanges_[i].name,
                       count |-> exchanges_[i].count,
                       min_ns |-> exchanges_[i].min_ns,
                       max_ns |-> exchanges_[i].max_ns] : i \in entries},
         histogram |-> {[name |-> exchanges_[i].name,
                         samples |-> exchanges_[i].samples] : i \in sampled},
         occupancy |-> {[name |-> exchanges_[i].name,
                         samples |-> exchanges_[i].occupancy_samples] :
                            i \in sampled}]

\* ArbitrageEngine::print_latency_report
print_latency_report(kind) ==
    /\ Len(report_h) < MaxPrintedReports
    /\ report_h' = Append(report_h, [kind |-> kind, printed |-> print_report,
                                     dropped_count_ |-> dropped_count_])
    /\ UNCHANGED offReport

\* calculation_loop: the report block
PeriodicReport == print_latency_report("periodic")

\* stop(): the final report; nothing is printed after it
FinalReport ==
    /\ \A i \in DOMAIN report_h : report_h[i].kind # "final"
    /\ print_latency_report("final")

ReportNext ==
    \/ \E p \in Producers : RingPushWhole(p)
    \/ RingDrainWhole
    \/ PeriodicReport
    \/ FinalReport

SpecReport == Init /\ [][ReportNext]_vars

\* C35: drops are surfaced by the report path: every latency report printed
\* (periodic or final) after a push was dropped shows the transport's total
\* drop count as it is at that moment.
C35_ReportShowsDrops ==
    \A i \in DOMAIN report_h :
        report_h[i].dropped_count_ > 0 =>
            /\ "drops" \in DOMAIN report_h[i].printed
            /\ report_h[i].printed["drops"] = report_h[i].dropped_count_

\* ------------------------------------------- several products of one venue
\* The detection loop fed by clients whose feed carries more than one
\* product of the venue.

\* a venue client decodes a message for one of its products and calls
\* update_market_data -> MutexSharedQueue::push
VenuePush(p) ==
    /\ PushCalls < MaxQuotes
    /\ \E s \in VenueSymbols[p], book \in Books :
          queue_' = QueuePush(queue_, Ticker(p, s, book, Now(clock), 0))
    /\ pn' = [pn EXCEPT ![p] = pn[p] + 1]
    /\ UNCHANGED <<engineVars, readerVars, market_data_, scan_h, offPass,
                   offEngine>>

VenuesNext ==
    \/ \E p \in Producers : VenuePush(p)
    \/ Engine

SpecVenues == Init /\ [][VenuesNext]_vars

\* C38: opportunities are cross-venue: every emitted opportunity has
\* buy_exchange different from sell_exchange, also when the world view holds
\* two entries of one venue whose symbols normalise to the same symbol.
C38_CrossVenue ==
    \A list \in {new_opportunities, opportunities_} :
        \A n \in DOMAIN list : list[n].buy_exchange # list[n].sell_exchange

\* ---------------------------------------------------- cross-venue grouping
\* normalize_symbol applied to the symbol each venue client puts into its
\* quotes of an asset.

\* length of an asset code
MaxAssetLen == 3

\* asset codes: strings over a few letters
Assets == UNION {[1..n -> {"B", "T", "C"}] : n \in 1..MaxAssetLen}

Venues == {"Binance", "Bybit", "Coinbase", "Kraken"}

\* the symbol a venue's messages carry for an asset, which the client copies
\* into ticker.symbol: Binance "s" and Bybit "s" <asset>USDT, Coinbase
\* product_id <asset>-USD, Kraken symbol <asset>/USD
NativeFormat(venue, asset) ==
    CASE venue = "Coinbase" -> asset \o <<"-", "U", "S", "D">>
      [] venue = "Kraken" -> asset \o <<"/", "U", "S", "D">>
      [] OTHER -> asset \o <<"U", "S", "D", "T">>

InitGrouping ==
    /\ InitRing
    /\ InitMutexQueue
    /\ InitThreads
    /\ InitHistory
    /\ InitEngine
    /\ InitCreated
    /\ live = FALSE
    /\ nsym \in {NativeFormat(v, a) : v \in Venues, a \in Assets}
    /\ nout = <<>>
    /\ InitMeasurement

SpecGrouping == InitGrouping /\ [][NormalizeNext]_vars

\* C39: cross-venue grouping: the symbols the venue clients emit for one
\* asset (Binance and Bybit <asset>USDT, Coinbase <asset>-USD, Kraken
\* <asset>/USD) are all mapped by normalize_symbol to the same normalised
\* symbol, the one of the Binance form.
C39_SameGroup ==
    \A v \in Venues, a \in Assets :
        (nsym = NativeFormat(v, a) /\ Len(nout) >= 1)
            => nout[1] = normalize_symbol(NativeFormat("Binance", a))

\* -------------------------------------------------------- LatencyMonitor
\* Each instrumented thread takes its messages through start_measurement,
\* record_timestamp at the measurement points and complete_measurement.
\* Every call runs under active_mutex_ (or is one fetch_add) and is one step.

offMonitor == <<ringVars, prodVars, consVars, histVars, mutexVars, engineVars,
                readerVars, scan_h, lifeVars, normVars, trackVars, convVars,
                dualVars, spscVars, occ, rec, rec_h, report_h>>

\* Config::enabled as default-constructed
config_enabled == TRUE

\* the measurement points a thread records, in order
MeasurementPoints == <<"WEBSOCKET_RECV", "DASHBOARD_UPDATED">>

\* the position after the k-th record_timestamp call
Recorded(k) == IF k = 1 THEN "recorded1" ELSE "recorded2"

\* message_id == 0: the identifier start_measurement returns when disabled
NoMessage(message_id) == message_id = 0

\* start_measurement: msg_id = next_message_id_.fetch_add(1);
\* active_measurements_[msg_id] = measurement; return msg_id
start_measurement(c) ==
    /\ caller[c].pc = "idle"
    /\ caller[c].n < MaxMeasurements
    /\ IF ~config_enabled
       THEN /\ caller' = [caller EXCEPT ![c].pc = "started", ![c].msg_id = 0]
            /\ UNCHANGED <<next_message_id_, active_measurements_>>
       ELSE /\ next_message_id_' = next_message_id_ + 1
            /\ active_measurements_' =
                   [i \in DOMAIN active_measurements_ \cup {next_message_id_} |->
                       IF i = next_message_id_ THEN {} ELSE active_measurements_[i]]
            /\ caller' = [caller EXCEPT ![c].pc = "started",
                                        ![c].msg_id = next_message_id_]
    /\ UNCHANGED <<sample_buffer_, offMonitor>>

\* record_timestamp(message_id, point): returns at once when disabled or
\* message_id == 0; else records the point when the measurement is active
record_timestamp(c, k) ==
    /\ caller[c].pc = (IF k = 1 THEN "started" ELSE Recorded(k - 1))
    /\ caller' = [caller EXCEPT ![c].pc = Recorded(k)]
    /\ LET message_id == caller[c].msg_id IN
       IF ~config_enabled \/ NoMessage(message_id)
          \/ message_id \notin DOMAIN active_measurements_
       THEN UNCHANGED active_measurements_
       ELSE active_measurements_' =
               [active_measurements_ EXCEPT
                   ![message_id] = @ \cup {MeasurementPoints[k]}]
    /\ UNCHANGED <<next_message_id_, sample_buffer_, offMonitor>>

\* complete_measurement(message_id): returns at once when disabled or
\* message_id == 0 or the measurement is not active; else erases it from
\* active_measurements_ and pushes it to sample_buffer_
complete_measurement(c) ==
    /\ caller[c].pc = Recorded(Len(MeasurementPoints))
    /\ caller' = [caller EXCEPT ![c].pc = "idle", ![c].n = @ + 1]
    /\ LET message_id == caller[c].msg_id IN
       IF ~config_enabled \/ NoMessage(message_id)
          \/ message_id \notin DOMAIN active_measurements_
       THEN UNCHANGED <<active_measurements_, sample_buffer_>>
       ELSE /\ active_measurements_' =
                  [i \in DOMAIN active_measurements_ \ {message_id} |->
                      active_measurements_[i]]
            /\ sample_buffer_' =
                  Append(sample_buffer_,
                         [message_id |-> message_id,
                          points |-> active_measurements_[message_id]])
    /\ UNCHANGED <<next_message_id_, offMonitor>>

MonitorNext ==
    \/ \E c \in Producers : start_measurement(c)
    \/ \E c \in Producers, k \in DOMAIN MeasurementPoints : record_timestamp(c, k)
    \/ \E c \in Producers : complete_measurement(c)

SpecMonitor == Init /\ [][MonitorNext]_vars

\* the measurement points the thread c has recorded so far on its message
PointsSoFar(c) ==
    CASE caller[c].pc = "recorded1" -> {MeasurementPoints[1]}
      [] caller[c].pc = "recorded2" -> {MeasurementPoints[1], MeasurementPoints[2]}
      [] OTHER -> {}

\* C40: LatencyMonitor loses no measurement: with monitoring enabled, every
\* measurement begun with start_measurement, the first of the process
\* included, is active and holds the timestamps recorded on it until
\* complete_measurement, which submits it to the sample buffer and removes
\* it from active_measurements_; after n start/complete pairs n samples have
\* been submitted, and active_measurements_ holds only the measurements
\* under way.
C40_NoMeasurementLost ==
    /\ \A c \in Producers :
          caller[c].pc # "idle" =>
              /\ caller[c].msg_id \in DOMAIN active_measurements_
              /\ active_measurements_[caller[c].msg_id] = PointsSoFar(c)
    /\ Len(sample_buffer_) = SumOver([c \in Producers |-> caller[c].n], Producers)
    /\ \A i \in DOMAIN sample_buffer_ :
          sample_buffer_[i].points = Range(MeasurementPoints)
    /\ DOMAIN active_measurements_ =
          {caller[c].msg_id : c \in {d \in Producers : caller[d].pc # "idle"}}

=============================================================================
